---- MODULE Spec2Model ----
(***************************************************************************)
(* Authentication / authorization core of eventease-planner.               *)
(*                                                                         *)
(* State: the user collection, the event collection, the set of bearer     *)
(* tokens issued so far, a coarse clock, and the outcome of the last       *)
(* request handled.  One action per route (gate middleware, validation     *)
(* middleware and controller together) or per gate invocation.             *)
(***************************************************************************)
EXTENDS Integers, FiniteSets, Sequences, TLC

(* ----------------------------- bounds --------------------------------- *)
MaxUsers == 3          \* user ids are 1..MaxUsers
MaxEvents == 1         \* event ids are 1..MaxEvents
MaxTime == 1           \* the clock runs over 0..MaxTime
MaxDocs == 2           \* invitation and RSVP ids are 1..MaxDocs

(* one clock tick stands for the '30d' lifetime of a token *)
TokenLifetime == 1

(* ------------------------- value domains ------------------------------ *)
Emails == {"a@x.com", "org@x.com"}
Names == {"John"}
Plains == {"pw-one", "pw-two"}
Roles == {"guest", "organizer", "admin"}
Undefined == "undefined"
NoTime == -1

Null == [null |-> TRUE]
NoToken == [kind |-> "none"]

(* the text of `google-auth-${Date.now()}` for a clock value t *)
PlaceholderPlain(t) == "google-auth-" \o ToString(t)

(* A password value: a plaintext s hashed n times by bcrypt; t is the      *)
(* Date.now() part of a generated placeholder (NoTime otherwise).          *)
Pw(s) ==
  IF \E t \in 0..MaxTime : s = PlaceholderPlain(t)
    THEN [s |-> "google-auth", t |-> CHOOSE t \in 0..MaxTime : s = PlaceholderPlain(t), n |-> 0]
    ELSE [s |-> s, t |-> NoTime, n |-> 0]
Hash(p) == [p EXCEPT !.n = @ + 1]
BcryptCompare(plain, stored) == stored = Hash(Pw(plain))

(* ----------------------------- User model ----------------------------- *)
SchemaPaths == {"_id", "name", "email", "password", "role"}
RoleEnum == {"organizer", "guest"}

(* strict schema: a path that is not in the schema is not persisted *)
StrictCast(doc) == [f \in (DOMAIN doc) \cap SchemaPaths |-> doc[f]]

(* .select('-password') and the hand-built response objects *)
Select(doc, excluded) == [f \in (DOMAIN doc) \ excluded |-> doc[f]]

VARIABLES users, nextId, events, nextEventId, issued, now, strictQuery, res, linker, writers, server,
          invitations, rsvps, nextDocId, inviters
vars == <<users, nextId, events, nextEventId, issued, now, strictQuery, res, linker, writers, server, invitations, rsvps, nextDocId, inviters>>

(* ---------------------------- Token Service --------------------------- *)
(* jwt.sign({ id }, secret, { expiresIn }) *)
generateToken(id) == [kind |-> "jwt", sub |-> id, exp |-> now + TokenLifetime, sig |-> "ok"]

EmptyString == [kind |-> "empty"]
Garbage == [kind |-> "garbage"]

(* jwt.verify(token, secret): the structure is checked first, then the     *)
(* secret and the signature, then the expiry *)
jwtVerify(token) ==
  IF token.kind # "jwt" THEN [ok |-> FALSE, name |-> "JsonWebTokenError", why |-> "Malformed", id |-> 0]
  ELSE IF (~server.jwtSecret) THEN [ok |-> FALSE, name |-> "JsonWebTokenError", why |-> "SecretMissing", id |-> 0]
  ELSE IF token.sig # "ok" THEN [ok |-> FALSE, name |-> "JsonWebTokenError", why |-> "SignatureInvalid", id |-> 0]
  ELSE IF now >= token.exp THEN [ok |-> FALSE, name |-> "TokenExpiredError", why |-> "Expired", id |-> 0]
  ELSE [ok |-> TRUE, name |-> "", why |-> "", id |-> token.sub]

ClientTokens == issued \cup ({ [kind |-> "jwt", sub |-> 1, exp |-> e, sig |-> "bad"] : e \in {0, MaxTime + TokenLifetime} }) \cup {Garbage}

AbsentHeader == [scheme |-> "absent", rest |-> NoToken]
Requests ==
  [authorization : {AbsentHeader} \cup { [scheme |-> "Basic", rest |-> Garbage] }
                   \cup { [scheme |-> "Bearer", rest |-> t] : t \in ClientTokens \cup {EmptyString} },
   cookie : {NoToken, EmptyString} \cup ClientTokens, db : {"up", "down"}]

(* requests sent to the routes: a bearer header or nothing *)
RouteRequests == { r \in Requests : r.cookie = NoToken /\ r.authorization.scheme # "Basic"
                                     /\ r.authorization.rest \in issued \cup {NoToken} }
PublicRequests == { r \in Requests : r.cookie = NoToken /\ r.authorization = AbsentHeader }

(* ------------------------------ user store ---------------------------- *)
Ids(coll) == { d._id : d \in coll }
FindById(coll, id) == IF id \in Ids(coll) THEN CHOOSE d \in coll : d._id = id ELSE Null
FindByEmail(email) ==
  IF \E d \in users : d.email = email THEN CHOOSE d \in users : d.email = email ELSE Null

Truthy(t) == t.kind \notin {"none", "empty"}

(* the token the gate works with (undefined is NoToken) *)
ExtractToken(req) ==
  IF req.authorization.scheme = "Bearer" THEN req.authorization.rest
  ELSE IF Truthy(req.cookie) THEN req.cookie
  ELSE NoToken

(* what a gate did: the response it sent (status 0: none), whether it     *)
(* called next, the identity it put on the request, its store lookups *)
GateResult(status, success, message, next, user, lookups) ==
  [status |-> status, success |-> success, message |-> message, next |-> next,
   user |-> user, lookups |-> lookups]

Continue(user, lookups) == GateResult(0, TRUE, "", TRUE, user, lookups)

NoTokenResult_CallsNext == Continue(Null, 0)

NoTokenResult == GateResult(401, FALSE, "Access denied. No token provided.", FALSE, Null, 0)

VerifyFailMessage_AlwaysInvalid(name) == "Invalid token."

VerifyFailMessage(name) ==
  IF name = "TokenExpiredError" THEN "Token has expired." ELSE "Invalid token."

VerifyFailResult(v) == GateResult(401, FALSE, VerifyFailMessage(v.name), FALSE, Null, 0)

UserNotFoundResult_ServerError ==
  GateResult(500, FALSE, "Server error during authentication.", FALSE, Null, 1)

UserNotFoundResult == GateResult(401, FALSE, "Token is not valid. User not found.", FALSE, Null, 1)

GateErrorResult_Unauthorized ==
  GateResult(401, FALSE, "Token is not valid. User not found.", FALSE, Null, 1)

GateErrorResult == GateResult(500, FALSE, "Server error during authentication.", FALSE, Null, 1)

AttachedUser(doc) == Select(doc, {"password"})

protect_AttachesAnyUser(req) ==
  LET token == ExtractToken(req)
      v == jwtVerify(token)
      user == IF users = {} THEN Null ELSE CHOOSE d \in users : \A e \in users : d._id <= e._id
  IN IF ~Truthy(token) THEN NoTokenResult
     ELSE IF ~v.ok THEN VerifyFailResult(v)
     ELSE IF req.db = "down" THEN GateErrorResult
     ELSE IF user = Null THEN UserNotFoundResult
     ELSE Continue(AttachedUser(user), 1)

protect(req) ==
  LET token == ExtractToken(req)
      v == jwtVerify(token)
      user == FindById(users, v.id)
  IN IF ~Truthy(token) THEN NoTokenResult
     ELSE IF ~v.ok THEN VerifyFailResult(v)
     ELSE IF req.db = "down" THEN GateErrorResult
     ELSE IF user = Null THEN UserNotFoundResult
     ELSE Continue(AttachedUser(user), 1)

optionalAuth_Rejects(req) ==
  LET token == ExtractToken(req)
      v == jwtVerify(token)
      user == FindById(users, v.id)
  IN IF ~Truthy(token) THEN Continue(Null, 0)
     ELSE IF ~v.ok THEN VerifyFailResult(v)
     ELSE IF req.db = "down" THEN Continue(Null, 1)
     ELSE IF user = Null THEN Continue(Null, 1)
     ELSE Continue(AttachedUser(user), 1)

optionalAuth(req) ==
  LET token == ExtractToken(req)
      v == jwtVerify(token)
      user == FindById(users, v.id)
  IN IF ~Truthy(token) THEN Continue(Null, 0)
     ELSE IF ~v.ok THEN Continue(Null, 0)
     ELSE IF req.db = "down" THEN Continue(Null, 1)
     ELSE IF user = Null THEN Continue(Null, 1)
     ELSE Continue(AttachedUser(user), 1)

NoGate == Continue(Null, 0)

(* --------------------------- responses -------------------------------- *)
NoParams == [id |-> 0]
NoBody == [none |-> TRUE]

Response(route, req, params, body, gate, status, message, data, token) ==
  [route |-> route, req |-> req, params |-> params, body |-> body, gate |-> gate,
   status |-> status, message |-> message, data |-> data, token |-> token, error |-> "",
   path |-> "", handler |-> "", authenticated |-> FALSE]

(* the response a gate sends by itself when it does not call next *)
GateResponse(route, req, params, body, gate) ==
  Response(route, req, params, body, gate, gate.status, gate.message, {}, NoToken)

(* no request is being handled *)
Idle == Response("none", [authorization |-> AbsentHeader, cookie |-> NoToken, db |-> "up"],
                 NoParams, NoBody, NoGate, 0, "", {}, NoToken)

(* ------------------------------- clock -------------------------------- *)
(* time passes between requests *)
Tick ==
  /\ now < MaxTime
  /\ now' = now + 1
  /\ UNCHANGED <<users, nextId, events, nextEventId, issued, strictQuery, res, linker, writers, server, invitations, rsvps, nextDocId, inviters>>

(* the response has gone out (or next() has run) and the request is over *)
EndRequest ==
  /\ res # Idle
  /\ res' = Idle
  /\ UNCHANGED <<users, nextId, events, nextEventId, issued, now, strictQuery, linker, writers, server, invitations, rsvps, nextDocId, inviters>>

(* ------------------- gate invoked on its own -------------------------- *)
GateProtect(req) ==
  /\ res' = GateResponse("protect", req, NoParams, NoBody, protect(req))
  /\ UNCHANGED <<users, nextId, events, nextEventId, issued, now, strictQuery, linker, writers, server, invitations, rsvps, nextDocId, inviters>>

GateOptional(req) ==
  /\ res' = GateResponse("optionalAuth", req, NoParams, NoBody, optionalAuth(req))
  /\ UNCHANGED <<users, nextId, events, nextEventId, issued, now, strictQuery, linker, writers, server, invitations, rsvps, nextDocId, inviters>>

(* ---------------------------- User documents -------------------------- *)
(* pre('save'): hash the password when it was modified *)
PreSave(doc, passwordModified) ==
  IF passwordModified THEN [doc EXCEPT !.password = Hash(@)] ELSE doc

(* schema validation of the paths being written *)
ValidationError(fields) ==
  \/ ("role" \in DOMAIN fields /\ fields.role \notin RoleEnum)
  \/ ("password" \in DOMAIN fields /\ fields.password = Pw(Undefined))

(* the document User.create(fields) stores: _id assigned, unknown paths    *)
(* dropped, password hashed by the pre-save hook *)
NewUserDoc(fields) ==
  PreSave(StrictCast([f \in (DOMAIN fields) \cup {"_id"} |->
                        IF f = "_id" THEN nextId ELSE fields[f]]), TRUE)

(* --------------------------- users controller ------------------------- *)
BadEmail == "not-an-email"
ShortPassword == "short"
BadRole == "owner"

CreationBodies == [name : Names, email : Emails \cup {BadEmail},
                   password : Plains \cup {ShortPassword},
                   role : {Undefined, BadRole} \cup Roles]

validateUserCreation(body) ==
  /\ body.email # BadEmail
  /\ body.password # ShortPassword
  /\ body.role \in {Undefined} \cup Roles

RegisterFields(body) ==
  [name |-> body.name, email |-> body.email, password |-> Hash(Pw(body.password)),
   role |-> IF body.role = Undefined THEN "guest" ELSE body.role]

(* POST /api/users : validateUserCreation, registerUser *)
Register(req, body) ==
  LET R(status, message, data, token) ==
        Response("registerUser", req, NoParams, body, NoGate, status, message, data, token)
      fields == RegisterFields(body)
      doc == NewUserDoc(fields)
      token == generateToken(doc._id)
      keep == UNCHANGED <<users, nextId, issued>>
  IN /\ IF ~validateUserCreation(body)
          THEN res' = R(400, "Validation failed", {}, NoToken) /\ keep
        ELSE IF req.db = "down"
          THEN res' = R(500, "Server error during registration", {}, NoToken) /\ keep
        ELSE IF FindByEmail(body.email) # Null
          THEN res' = R(400, "User already exists with this email", {}, NoToken) /\ keep
        ELSE IF ValidationError(fields)
          THEN res' = R(400, "ValidationError", {}, NoToken) /\ keep
        ELSE /\ nextId <= MaxUsers
             /\ users' = users \cup {doc}
             /\ nextId' = nextId + 1
             /\ issued' = issued \cup {token}
             /\ res' = R(201, "User registered successfully",
                         {Select(doc, {"password"})}, token)
     /\ UNCHANGED <<events, nextEventId, now, strictQuery, linker, writers, server, invitations, rsvps, nextDocId, inviters>>

LoginBodies == [email : Emails \cup {"root@x.com", Undefined}, password : Plains]

(* POST /api/users/login : loginUser *)
Login(req, body) ==
  LET R(status, message, data, token) ==
        Response("loginUser", req, NoParams, body, NoGate, status, message, data, token)
      user == FindByEmail(body.email)
      token == generateToken(user._id)
  IN /\ IF body.email = Undefined
          THEN res' = R(400, "Please provide email and password", {}, NoToken) /\ issued' = issued
        ELSE IF req.db = "down"
          THEN res' = R(500, "Server error during login", {}, NoToken) /\ issued' = issued
        ELSE IF user = Null
          THEN res' = R(401, "Invalid email or password", {}, NoToken) /\ issued' = issued
        ELSE IF ~BcryptCompare(body.password, user.password)
          THEN res' = R(401, "Invalid email or password", {}, NoToken) /\ issued' = issued
        ELSE IF (~server.jwtSecret)
          THEN res' = R(500, "Server error during login", {}, NoToken) /\ issued' = issued
        ELSE /\ issued' = issued \cup {token}
             /\ res' = R(200, "Login successful", {Select(user, {"password"})}, token)
     /\ UNCHANGED <<users, nextId, events, nextEventId, now, strictQuery, linker, writers, server, invitations, rsvps, nextDocId, inviters>>

(* GET /api/users : protect, getUsers *)
GetUsers(req) ==
  LET gate == protect(req)
  IN /\ res' = IF ~gate.next THEN GateResponse("getUsers", req, NoParams, NoBody, gate)
               ELSE Response("getUsers", req, NoParams, NoBody, gate, 200, "", users, NoToken)
     /\ UNCHANGED <<users, nextId, events, nextEventId, issued, now, strictQuery, linker, writers, server, invitations, rsvps, nextDocId, inviters>>

(* request ids: 0 stands for a string that is not an ObjectId *)
BadObjectId == 0
UserParams == [id : {BadObjectId} \cup 1..MaxUsers]

(* GET /api/users/:id : protect, getUser *)
GetUser(req, params) ==
  LET gate == protect(req)
      R(status, message, data) ==
        Response("getUser", req, params, NoBody, gate, status, message, data, NoToken)
      user == FindById(users, params.id)
  IN /\ res' = IF ~gate.next THEN GateResponse("getUser", req, params, NoBody, gate)
               ELSE IF params.id = BadObjectId THEN R(400, "Invalid user ID format", {})
               ELSE IF user = Null THEN R(404, "User not found", {})
               ELSE R(200, "", {user})
     /\ UNCHANGED <<users, nextId, events, nextEventId, issued, now, strictQuery, linker, writers, server, invitations, rsvps, nextDocId, inviters>>

UpdateBodies == [name : {Undefined} \cup Names,
                 email : {Undefined, BadEmail} \cup Emails,
                 role : {Undefined, BadRole} \cup Roles]

validateUserUpdate(body) ==
  /\ body.email # BadEmail
  /\ body.role \in {Undefined} \cup Roles

(* req.user._id.toString() !== userId.toString() && req.user.role !== 'admin' is the refusal *)
canMutateUser(requester, userId) ==
  requester._id = userId \/ requester.role = "admin"

(* the updates object handed to findByIdAndUpdate *)
UserUpdates_AnyRole(requester, body) ==
  LET fs == (IF body.name # Undefined THEN {"name"} ELSE {})
            \cup (IF body.email # Undefined THEN {"email"} ELSE {})
            \cup (IF body.role # Undefined THEN {"role"} ELSE {})
  IN [f \in fs |-> body[f]]

UserUpdates(requester, body) ==
  LET fs == (IF body.name # Undefined THEN {"name"} ELSE {})
            \cup (IF body.email # Undefined THEN {"email"} ELSE {})
            \cup (IF body.role # Undefined /\ requester.role = "admin" THEN {"role"} ELSE {})
  IN [f \in fs |-> body[f]]

ApplyUpdates(doc, updates) ==
  [f \in DOMAIN doc |-> IF f \in DOMAIN updates THEN updates[f] ELSE doc[f]]

(* PUT /api/users/:id : protect, validateUserUpdate, updateUser *)
UpdateUser(req, params, body) ==
  LET gate == protect(req)
      R(status, message, data) ==
        Response("updateUser", req, params, body, gate, status, message, data, NoToken)
      user == FindById(users, params.id)
      updates == UserUpdates(gate.user, body)
      updated == ApplyUpdates(user, updates)
  IN /\ IF ~gate.next
          THEN res' = GateResponse("updateUser", req, params, body, gate) /\ users' = users
        ELSE IF ~validateUserUpdate(body)
          THEN res' = R(400, "Validation failed", {}) /\ users' = users
        ELSE IF params.id = BadObjectId
          THEN res' = R(400, "Invalid user ID format", {}) /\ users' = users
        ELSE IF user = Null
          THEN res' = R(404, "User not found", {}) /\ users' = users
        ELSE IF ~canMutateUser(gate.user, params.id)
          THEN res' = R(403, "Not authorized to update this user", {}) /\ users' = users
        ELSE IF body.email # Undefined /\ body.email # user.email /\ FindByEmail(body.email) # Null
          THEN res' = R(400, "Email already in use", {}) /\ users' = users
        ELSE IF ValidationError(updates)
          THEN res' = R(500, "Server error updating user", {}) /\ users' = users
        ELSE /\ users' = (users \ {user}) \cup {updated}
             /\ res' = R(200, "User updated successfully", {Select(updated, {"password"})})
     /\ UNCHANGED <<nextId, events, nextEventId, issued, now, strictQuery, linker, writers, server, invitations, rsvps, nextDocId, inviters>>

(* DELETE /api/users/:id : protect, deleteUser *)
DeleteUser(req, params) ==
  LET gate == protect(req)
      R(status, message) ==
        Response("deleteUser", req, params, NoBody, gate, status, message, {}, NoToken)
      user == FindById(users, params.id)
  IN /\ IF ~gate.next
          THEN res' = GateResponse("deleteUser", req, params, NoBody, gate) /\ users' = users
        ELSE IF params.id = BadObjectId
          THEN res' = R(400, "Invalid user ID format") /\ users' = users
        ELSE IF user = Null
          THEN res' = R(404, "User not found") /\ users' = users
        ELSE /\ users' = users \ {user}
             /\ res' = R(200, "User deleted successfully")
     /\ UNCHANGED <<nextId, events, nextEventId, issued, now, strictQuery, linker, writers, server, invitations, rsvps, nextDocId, inviters>>

UpdateStatuses == {"draft", "published", "cancelled", "completed"}
PastDate == "2000-01-01"
FutureDate == "2030-01-01"
BadDate == "tomorrow"

NoId == 0
EventParams == [id : {BadObjectId} \cup 1..MaxEvents]
EventUpdateBodies == [status : {Undefined, "active"} \cup UpdateStatuses,
                      date : {Undefined, PastDate, FutureDate, BadDate},
                      organizerId : {NoId} \cup 1..MaxUsers]

validateEventUpdate(body) ==
  /\ body.date # BadDate
  /\ body.status \in {Undefined} \cup UpdateStatuses

(* event.organizerId.toString() !== req.user._id.toString() is the refusal *)
canMutateEvent(requester, event) == event.organizerId = requester._id

EventValidationError(fields) ==
  "status" \in DOMAIN fields /\ fields.status \notin {"active", "cancelled", "completed"}

EventUpdates(body) ==
  LET fs == (IF body.status # Undefined THEN {"status"} ELSE {})
            \cup (IF body.date # Undefined THEN {"date"} ELSE {})
            \cup (IF body.organizerId # NoId THEN {"organizerId"} ELSE {})
  IN [f \in fs |-> body[f]]

UpdateEvent_ValidatesFirst(req, params, body) ==
  LET gate == protect(req)
      R(status, message, data) ==
        Response("updateEvent", req, params, body, gate, status, message, data, NoToken)
      event == FindById(events, params.id)
      updates == EventUpdates(body)
      updated == ApplyUpdates(event, updates)
  IN /\ IF ~validateEventUpdate(body)
          THEN res' = R(400, "Validation failed", {}) /\ events' = events
        ELSE IF ~gate.next
          THEN res' = GateResponse("updateEvent", req, params, body, gate) /\ events' = events
        ELSE IF params.id = BadObjectId
          THEN res' = R(400, "Invalid event ID format", {}) /\ events' = events
        ELSE IF event = Null
          THEN res' = R(404, "Event not found", {}) /\ events' = events
        ELSE IF ~canMutateEvent(gate.user, event)
          THEN res' = R(403, "Not authorized to update this event", {}) /\ events' = events
        ELSE IF body.date = PastDate
          THEN res' = R(400, "Event date must be in the future", {}) /\ events' = events
        ELSE IF EventValidationError(updates)
          THEN res' = R(400, "ValidationError", {}) /\ events' = events
        ELSE /\ events' = (events \ {event}) \cup {updated}
             /\ res' = R(200, "Event updated successfully", {updated})
     /\ UNCHANGED <<users, nextId, nextEventId, issued, now, strictQuery, linker, writers, server, invitations, rsvps, nextDocId, inviters>>

(* PUT /api/events/:id : protect, validateEventUpdate, updateEvent *)
UpdateEvent(req, params, body) ==
  LET gate == protect(req)
      R(status, message, data) ==
        Response("updateEvent", req, params, body, gate, status, message, data, NoToken)
      event == FindById(events, params.id)
      updates == EventUpdates(body)
      updated == ApplyUpdates(event, updates)
  IN /\ IF ~gate.next
          THEN res' = GateResponse("updateEvent", req, params, body, gate) /\ events' = events
        ELSE IF ~validateEventUpdate(body)
          THEN res' = R(400, "Validation failed", {}) /\ events' = events
        ELSE IF params.id = BadObjectId
          THEN res' = R(400, "Invalid event ID format", {}) /\ events' = events
        ELSE IF event = Null
          THEN res' = R(404, "Event not found", {}) /\ events' = events
        ELSE IF ~canMutateEvent(gate.user, event)
          THEN res' = R(403, "Not authorized to update this event", {}) /\ events' = events
        ELSE IF body.date = PastDate
          THEN res' = R(400, "Event date must be in the future", {}) /\ events' = events
        ELSE IF EventValidationError(updates)
          THEN res' = R(400, "ValidationError", {}) /\ events' = events
        ELSE /\ events' = (events \ {event}) \cup {updated}
             /\ res' = R(200, "Event updated successfully", {updated})
     /\ UNCHANGED <<users, nextId, nextEventId, issued, now, strictQuery, linker, writers, server, invitations, rsvps, nextDocId, inviters>>

(* DELETE /api/events/:id : protect, deleteEvent *)
DeleteEvent(req, params) ==
  LET gate == protect(req)
      R(status, message) ==
        Response("deleteEvent", req, params, NoBody, gate, status, message, {}, NoToken)
      event == FindById(events, params.id)
  IN /\ IF ~gate.next
          THEN res' = GateResponse("deleteEvent", req, params, NoBody, gate) /\ events' = events
        ELSE IF params.id = BadObjectId
          THEN res' = R(400, "Invalid event ID format") /\ events' = events
        ELSE IF event = Null
          THEN res' = R(404, "Event not found") /\ events' = events
        ELSE IF ~canMutateEvent(gate.user, event)
          THEN res' = R(403, "Not authorized to delete this event") /\ events' = events
        ELSE /\ events' = events \ {event}
             /\ res' = R(200, "Event deleted successfully")
     /\ UNCHANGED <<users, nextId, nextEventId, issued, now, strictQuery, linker, writers, server, invitations, rsvps, nextDocId, inviters>>

EventCreationBodies == [title : {Undefined, "Launch"}, date : {PastDate, FutureDate, BadDate},
                        time : {Undefined, "18:00"}, location : {"Main hall"}]

validateEventCreation(body) ==
  /\ body.title # Undefined
  /\ body.date # BadDate
  /\ body.location # Undefined

(* POST /api/events : protect, validateEventCreation, createEvent *)
CreateEvent(req, body) ==
  LET gate == protect(req)
      R(status, message, data) ==
        Response("createEvent", req, NoParams, body, gate, status, message, data, NoToken)
      fields == [date |-> body.date, time |-> body.time, organizerId |-> gate.user._id, status |-> "draft"]
      event == [_id |-> nextEventId, organizerId |-> fields.organizerId, status |-> fields.status,
                date |-> fields.date]
      keep == UNCHANGED <<events, nextEventId>>
  IN /\ IF ~gate.next
          THEN res' = GateResponse("createEvent", req, NoParams, body, gate) /\ keep
        ELSE IF ~validateEventCreation(body)
          THEN res' = R(400, "Validation failed", {}) /\ keep
        ELSE IF body.date = PastDate
          THEN res' = R(400, "Event date must be in the future", {}) /\ keep
        ELSE IF EventValidationError(fields) \/ fields.time = Undefined
          THEN res' = R(400, "ValidationError", {}) /\ keep
        ELSE /\ nextEventId <= MaxEvents
             /\ events' = events \cup {event}
             /\ nextEventId' = nextEventId + 1
             /\ res' = R(201, "Event created successfully", {event})
     /\ UNCHANGED <<users, nextId, issued, now, strictQuery, linker, writers, server, invitations, rsvps, nextDocId, inviters>>

(* --------------------- External Identity Linker ----------------------- *)
(* error.message of a rejected store call and of a rejected tokeninfo call *)
RawStoreError == "MongoServerSelectionError: connect ECONNREFUSED 127.0.0.1:27017"
RawProviderError == "Request failed with status code 400"

Profiles == [kind : {"valid"}, sub : {"g1", "g2"}, email : Emails, name : Names]
GoogleBodies == [idToken : {[kind |-> "missing"], [kind |-> "invalid"]} \cup Profiles,
                 role : {Undefined, "admin"}]

SetPath(doc, f, v) == [g \in (DOMAIN doc) \cup {f} |-> IF g = f THEN v ELSE doc[g]]

(* User.findOne({ googleId }): with strictQuery a path unknown to the      *)
(* schema is removed from the filter and the first document matches;       *)
(* without it the filter is sent as is and matches stored fields *)
FindByGoogleId(g) ==
  IF "googleId" \notin SchemaPaths /\ strictQuery
    THEN IF users = {} THEN Null
         ELSE CHOOSE d \in users : \A e \in users : d._id <= e._id
  ELSE IF \E d \in users : "googleId" \in DOMAIN d /\ d.googleId = g
    THEN CHOOSE d \in users : "googleId" \in DOMAIN d /\ d.googleId = g
  ELSE Null

(* doc.save() of a loaded document: schema paths only, pre-save hook *)
Save(coll, old, doc) ==
  (coll \ {old}) \cup {PreSave(StrictCast(doc), doc.password # old.password)}

(* save() of the document the resolution holds: nothing is written when    *)
(* the stored document is no longer the loaded one and no schema path was  *)
(* modified *)
SaveLoaded(loaded, doc) ==
  IF StrictCast(loaded) \in users THEN Save(users, StrictCast(loaded), doc) ELSE users

GooglePassword == [s |-> "google-auth", t |-> now, n |-> 0]

GoogleFields_Organizer(profile) ==
  [googleId |-> profile.sub, name |-> profile.name, email |-> profile.email,
   password |-> GooglePassword, role |-> "organizer", isVerified |-> TRUE]

GoogleFields(profile) ==
  [googleId |-> profile.sub, name |-> profile.name, email |-> profile.email,
   password |-> GooglePassword, role |-> "guest", isVerified |-> TRUE]

(* find by googleId, else find by email and link, else create; then set    *)
(* lastLogin and save.  Gives the store afterwards and the resolved user. *)
ResolveProfile(profile) ==
  LET byGoogle == FindByGoogleId(profile.sub)
      byEmail == FindByEmail(profile.email)
      linked == SetPath(SetPath(byEmail, "googleId", profile.sub), "isVerified", TRUE)
      created == NewUserDoc(GoogleFields(profile))
      found == IF byGoogle # Null THEN [store |-> users, user |-> byGoogle, old |-> byGoogle, created |-> FALSE]
               ELSE IF byEmail # Null
                 THEN [store |-> Save(users, byEmail, linked), user |-> linked, old |-> byEmail, created |-> FALSE]
               ELSE [store |-> users \cup {created}, user |-> created, old |-> created, created |-> TRUE]
      logged == SetPath(found.user, "lastLogin", now)
  IN [store |-> Save(found.store, StrictCast(found.old), logged), user |-> logged, created |-> found.created]

TokenUser(user) == Select(StrictCast(user), {"password"})

(* POST /api/auth/google/login *)
GoogleLogin(req, body) ==
  LET R(status, message, data, token, error) ==
        [Response("googleLogin", req, NoParams, body, NoGate, status, message, data, token)
           EXCEPT !.error = error]
      r == ResolveProfile(body.idToken)
      token == generateToken(r.user._id)
      keep == UNCHANGED <<users, nextId, issued>>
  IN /\ IF body.idToken.kind = "missing"
          THEN res' = R(400, "Google ID token is required", {}, NoToken, "") /\ keep
        ELSE IF body.idToken.kind = "invalid"
          THEN res' = R(401, "Invalid Google token or server error", {}, NoToken, RawProviderError) /\ keep
        ELSE IF req.db = "down"
          THEN res' = R(401, "Invalid Google token or server error", {}, NoToken, RawStoreError) /\ keep
        ELSE /\ r.created => nextId <= MaxUsers
             /\ users' = r.store
             /\ nextId' = IF r.created THEN nextId + 1 ELSE nextId
             /\ issued' = issued \cup {token}
             /\ res' = R(200, "Authentication successful", {TokenUser(r.user)}, token, "")
     /\ UNCHANGED <<events, nextEventId, now, strictQuery, linker, writers, server, invitations, rsvps, nextDocId, inviters>>

(* the provider sends the user back with a profile or with a refusal *)
CallbackBodies == [idToken : Profiles \cup {[kind |-> "denied"]}]

(* GET /api/auth/google/callback : GoogleStrategy verify callback, then    *)
(* the route handler; body.idToken is the profile the provider returned.   *)
(* A refusal is redirected to GET /failure. *)
GoogleCallback(req, body) ==
  LET R(status, message, data, token) ==
        Response("googleCallback", req, NoParams, body, NoGate, status, message, data, token)
      r == ResolveProfile(body.idToken)
      token == generateToken(r.user._id)
  IN /\ IF body.idToken.kind = "denied"
          THEN res' = R(401, "Google OAuth authentication failed", {}, NoToken) /\ UNCHANGED <<users, nextId, issued>>
        ELSE IF req.db = "down"
          THEN res' = R(500, RawStoreError, {}, NoToken) /\ UNCHANGED <<users, nextId, issued>>
        ELSE /\ r.created => nextId <= MaxUsers
             /\ users' = r.store
             /\ nextId' = IF r.created THEN nextId + 1 ELSE nextId
             /\ issued' = issued \cup {token}
             /\ res' = R(200, "Authentication Successful", {TokenUser(r.user)}, token)
     /\ UNCHANGED <<events, nextEventId, now, strictQuery, linker, writers, server, invitations, rsvps, nextDocId, inviters>>

RawValidationError == "User validation failed: password: Password is required"

(* GET /api/auth/google/callback with the second passport configuration:   *)
(* find by googleId, else find by email and save, else create; no          *)
(* lastLogin.  A rejected create goes to done(error). *)
GoogleCallbackBasic(req, body) ==
  LET R(status, message, data, token) ==
        Response("googleCallbackBasic", req, NoParams, body, NoGate, status, message, data, token)
      profile == body.idToken
      byGoogle == FindByGoogleId(profile.sub)
      byEmail == FindByEmail(profile.email)
      fields == [googleId |-> profile.sub, email |-> profile.email, name |-> profile.name, role |-> "user"]
      user == IF byGoogle # Null THEN byGoogle ELSE byEmail
      created == NewUserDoc(fields)
  IN /\ IF body.idToken.kind = "denied"
          THEN res' = R(401, "Google OAuth authentication failed", {}, NoToken) /\ UNCHANGED <<users, nextId, issued>>
        ELSE IF req.db = "down"
          THEN res' = R(500, RawStoreError, {}, NoToken) /\ UNCHANGED <<users, nextId, issued>>
        ELSE IF user # Null
          THEN /\ users' = SaveLoaded(user, SetPath(user, "googleId", profile.sub))
               /\ nextId' = nextId
               /\ issued' = issued \cup {generateToken(user._id)}
               /\ res' = R(200, "Authentication Successful", {TokenUser(user)}, generateToken(user._id))
        ELSE IF ValidationError(fields) \/ "password" \notin DOMAIN fields
          THEN res' = R(500, RawValidationError, {}, NoToken) /\ UNCHANGED <<users, nextId, issued>>
        ELSE /\ nextId <= MaxUsers
             /\ users' = users \cup {created}
             /\ nextId' = nextId + 1
             /\ issued' = issued \cup {generateToken(created._id)}
             /\ res' = R(200, "Authentication Successful", {TokenUser(created)}, generateToken(created._id))
     /\ UNCHANGED <<events, nextEventId, now, strictQuery, linker, writers, server, invitations, rsvps, nextDocId, inviters>>

(* ------------- External Identity Linker, one await at a time ---------- *)
(* Two requests in flight.  Each await of the linker (findOne, findOne,    *)
(* save or create, save) is one step; the other request may run in between. *)
Procs == {1, 2}
DuplicateKeyMessage == "E11000 duplicate key error collection: users index: email_1"

(* request p is being handled by one of the stepwise handlers *)
Busy(p) == linker[p].pc # "idle" \/ writers[p].pc # "idle"

LinkerIdle == [pc |-> "idle", route |-> "none", profile |-> [kind |-> "none", sub |-> "", email |-> "", name |-> ""], fresh |-> FALSE,
               user |-> Null, created |-> FALSE, failure |-> "",
               status |-> 0, message |-> "", error |-> "", token |-> NoToken]

(* the provider has answered with a profile and the resolution begins *)
LinkStart(p, route, profile) ==
  /\ ~Busy(p)
  /\ linker' = [linker EXCEPT ![p] = [LinkerIdle EXCEPT
                   !.pc = "findByGoogleId", !.route = route, !.profile = profile,
                   !.fresh = (FindByEmail(profile.email) = Null /\ FindByGoogleId(profile.sub) = Null)]]
  /\ UNCHANGED <<users, nextId, events, nextEventId, issued, now, strictQuery, res, writers, server, invitations, rsvps, nextDocId, inviters>>

(* let user = await User.findOne({ googleId }) *)
LinkFindByGoogleId(p) ==
  LET user == FindByGoogleId(linker[p].profile.sub)
  IN /\ linker[p].pc = "findByGoogleId"
     /\ linker' = [linker EXCEPT ![p].user = user,
                                 ![p].pc = IF user # Null THEN "lastLogin" ELSE "findByEmail"]
     /\ UNCHANGED <<users, nextId, events, nextEventId, issued, now, strictQuery, res, writers, server, invitations, rsvps, nextDocId, inviters>>

(* user = await User.findOne({ email }) *)
LinkFindByEmail(p) ==
  LET user == FindByEmail(linker[p].profile.email)
  IN /\ linker[p].pc = "findByEmail"
     /\ linker' = [linker EXCEPT ![p].user = user,
                                 ![p].pc = IF user # Null THEN "link" ELSE "create"]
     /\ UNCHANGED <<users, nextId, events, nextEventId, issued, now, strictQuery, res, writers, server, invitations, rsvps, nextDocId, inviters>>

(* user.googleId = googleId; user.isVerified = true; await user.save() *)
LinkExisting(p) ==
  LET l == linker[p]
      linked == SetPath(SetPath(l.user, "googleId", l.profile.sub), "isVerified", TRUE)
  IN /\ l.pc = "link"
     /\ users' = SaveLoaded(l.user, linked)
     /\ linker' = [linker EXCEPT ![p].user = linked, ![p].pc = "lastLogin"]
     /\ UNCHANGED <<nextId, events, nextEventId, issued, now, strictQuery, res, writers, server, invitations, rsvps, nextDocId, inviters>>

(* the unique index on email refuses a second document with that email *)
DuplicateKey(email) == FindByEmail(email) # Null

(* user = await User.create({...}); a rejection goes to the catch block *)
LinkCreate(p) ==
  LET l == linker[p]
      doc == NewUserDoc(GoogleFields(l.profile))
  IN /\ l.pc = "create"
     /\ IF DuplicateKey(l.profile.email)
          THEN /\ linker' = [linker EXCEPT ![p].failure = DuplicateKeyMessage, ![p].pc = "respond"]
               /\ UNCHANGED <<users, nextId>>
          ELSE /\ nextId <= MaxUsers
               /\ users' = users \cup {doc}
               /\ nextId' = nextId + 1
               /\ linker' = [linker EXCEPT ![p].user = doc, ![p].created = TRUE,
                                           ![p].pc = "lastLogin"]
     /\ UNCHANGED <<events, nextEventId, issued, now, strictQuery, res, writers, server, invitations, rsvps, nextDocId, inviters>>

(* user.lastLogin = new Date(); await user.save() *)
LinkLastLogin(p) ==
  LET l == linker[p]
      logged == SetPath(l.user, "lastLogin", now)
  IN /\ l.pc = "lastLogin"
     /\ users' = SaveLoaded(l.user, logged)
     /\ linker' = [linker EXCEPT ![p].user = logged, ![p].pc = "respond"]
     /\ UNCHANGED <<nextId, events, nextEventId, issued, now, strictQuery, res, writers, server, invitations, rsvps, nextDocId, inviters>>

(* sendTokenResponse / the callback handler on success; on failure the     *)
(* catch block of POST /google/login (401 with error.message) or           *)
(* done(error), which passport hands to next(err) and the error handler *)
LinkRespond(p) ==
  LET l == linker[p]
      token == generateToken(l.user._id)
  IN /\ l.pc = "respond"
     /\ IF l.failure = ""
          THEN /\ issued' = issued \cup {token}
               /\ linker' = [linker EXCEPT ![p].pc = "done", ![p].status = 200,
                               ![p].message = "Authentication successful", ![p].token = token]
          ELSE /\ issued' = issued
               /\ linker' = [linker EXCEPT ![p].pc = "done",
                               ![p].status = IF l.route = "googleLogin" THEN 401 ELSE 500,
                               ![p].message = IF l.route = "googleLogin"
                                                THEN "Invalid Google token or server error"
                                                ELSE l.failure,
                               ![p].error = IF l.route = "googleLogin" THEN l.failure ELSE ""]
     /\ UNCHANGED <<users, nextId, events, nextEventId, now, strictQuery, res, writers, server, invitations, rsvps, nextDocId, inviters>>

LinkerSteps ==
  \/ \E p \in Procs, route \in {"googleLogin", "googleCallback"}, profile \in Profiles : LinkStart(p, route, profile)
  \/ \E p \in Procs : LinkFindByGoogleId(p)
  \/ \E p \in Procs : LinkFindByEmail(p)
  \/ \E p \in Procs : LinkExisting(p)
  \/ \E p \in Procs : LinkCreate(p)
  \/ \E p \in Procs : LinkLastLogin(p)
  \/ \E p \in Procs : LinkRespond(p)

(* ------------- account writers, one await at a time ------------------- *)
(* registerUser, updateUser and POST /test-user with their awaits as       *)
(* separate steps, so that another request can write between a handler's   *)
(* email lookup and its own write.                                         *)
RaceRequests == { r \in RouteRequests : r.db = "up" /\ r.authorization.scheme = "Bearer" }
TestUserBodies == [name : {Undefined}, email : Emails, role : {Undefined, BadRole}]

WriterIdle == [pc |-> "idle", route |-> "none", body |-> NoBody, target |-> NoId,
               requester |-> Null, loaded |-> Null, refused |-> FALSE,
               status |-> 0, message |-> "", token |-> NoToken]

WriterDone(w, status, message, token) ==
  [w EXCEPT !.pc = "done", !.status = status, !.message = message, !.token = token]

(* registerUser: const userExists = await User.findOne({ email }) *)
RegisterFind(p, body) ==
  LET w == [WriterIdle EXCEPT !.route = "registerUser", !.body = body]
  IN /\ ~Busy(p)
     /\ writers' = [writers EXCEPT ![p] =
          IF FindByEmail(body.email) # Null
            THEN [WriterDone(w, 400, "User already exists with this email", NoToken)
                    EXCEPT !.refused = TRUE]
            ELSE [w EXCEPT !.pc = "create"]]
     /\ UNCHANGED <<users, nextId, events, nextEventId, issued, now, strictQuery, res, linker, server, invitations, rsvps, nextDocId, inviters>>

(* registerUser: await User.create({...}) and the catch block *)
RegisterCreate(p) ==
  LET w == writers[p]
      fields == RegisterFields(w.body)
      doc == NewUserDoc(fields)
      token == generateToken(doc._id)
  IN /\ w.pc = "create" /\ w.route = "registerUser"
     /\ IF ValidationError(fields)
          THEN /\ writers' = [writers EXCEPT ![p] = WriterDone(w, 400, "ValidationError", NoToken)]
               /\ UNCHANGED <<users, nextId, issued>>
        ELSE IF DuplicateKey(w.body.email)
          THEN /\ writers' = [writers EXCEPT ![p] =
                     [WriterDone(w, 400, "Email already exists", NoToken) EXCEPT !.refused = TRUE]]
               /\ UNCHANGED <<users, nextId, issued>>
        ELSE /\ nextId <= MaxUsers
             /\ users' = users \cup {doc}
             /\ nextId' = nextId + 1
             /\ issued' = issued \cup {token}
             /\ writers' = [writers EXCEPT ![p] =
                   WriterDone(w, 201, "User registered successfully", token)]
     /\ UNCHANGED <<events, nextEventId, now, strictQuery, res, linker, server, invitations, rsvps, nextDocId, inviters>>

(* updateUser: protect, validateUserUpdate, let user = await User.findById(userId), *)
(* the ownership check *)
UpdateFind(p, req, params, body) ==
  LET gate == protect(req)
      w == [WriterIdle EXCEPT !.route = "updateUser", !.body = body, !.target = params.id,
                              !.requester = gate.user]
      user == FindById(users, params.id)
  IN /\ ~Busy(p)
     /\ writers' = [writers EXCEPT ![p] =
          IF ~gate.next THEN WriterDone(w, gate.status, gate.message, NoToken)
          ELSE IF user = Null THEN WriterDone(w, 404, "User not found", NoToken)
          ELSE IF ~canMutateUser(gate.user, params.id)
            THEN WriterDone(w, 403, "Not authorized to update this user", NoToken)
          ELSE [w EXCEPT !.pc = "checkEmail", !.loaded = user]]
     /\ UNCHANGED <<users, nextId, events, nextEventId, issued, now, strictQuery, res, linker, server, invitations, rsvps, nextDocId, inviters>>

(* updateUser: if (email && email !== user.email) exists = await User.findOne({ email }) *)
UpdateCheckEmail(p) ==
  LET w == writers[p]
  IN /\ w.pc = "checkEmail"
     /\ writers' = [writers EXCEPT ![p] =
          IF w.body.email # w.loaded.email /\ FindByEmail(w.body.email) # Null
            THEN [WriterDone(w, 400, "Email already in use", NoToken) EXCEPT !.refused = TRUE]
            ELSE [w EXCEPT !.pc = "write"]]
     /\ UNCHANGED <<users, nextId, events, nextEventId, issued, now, strictQuery, res, linker, server, invitations, rsvps, nextDocId, inviters>>

(* updateUser: await User.findByIdAndUpdate(userId, updates, {runValidators}) *)
UpdateWrite(p) ==
  LET w == writers[p]
      updates == UserUpdates(w.requester, w.body)
      current == FindById(users, w.target)
      updated == ApplyUpdates(current, updates)
  IN /\ w.pc = "write"
     /\ IF ValidationError(updates)
          THEN /\ writers' = [writers EXCEPT ![p] = WriterDone(w, 500, "Server error updating user", NoToken)]
               /\ users' = users
        ELSE IF current = Null
          THEN /\ writers' = [writers EXCEPT ![p] = WriterDone(w, 200, "User updated successfully", NoToken)]
               /\ users' = users
        ELSE IF "email" \in DOMAIN updates /\ \E d \in users : d._id # w.target /\ d.email = updates.email
          THEN /\ writers' = [writers EXCEPT ![p] =
                     [WriterDone(w, 400, "Email already exists", NoToken) EXCEPT !.refused = TRUE]]
               /\ users' = users
        ELSE /\ users' = (users \ {current}) \cup {updated}
             /\ writers' = [writers EXCEPT ![p] = WriterDone(w, 200, "User updated successfully", NoToken)]
     /\ UNCHANGED <<nextId, events, nextEventId, issued, now, strictQuery, res, linker, server, invitations, rsvps, nextDocId, inviters>>

(* POST /test-user: let user = await User.findOne({ email }); a user that  *)
(* exists is answered by sendTokenResponse *)
TestUserFind(p, body) ==
  LET w == [WriterIdle EXCEPT !.route = "testUser", !.body = body]
      user == FindByEmail(body.email)
      token == generateToken(user._id)
  IN /\ ~Busy(p)
     /\ IF user # Null
          THEN /\ issued' = issued \cup {token}
               /\ writers' = [writers EXCEPT ![p] =
                     [WriterDone(w, 200, "Authentication successful", token) EXCEPT !.loaded = user]]
          ELSE /\ issued' = issued
               /\ writers' = [writers EXCEPT ![p] = [w EXCEPT !.pc = "create"]]
     /\ UNCHANGED <<users, nextId, events, nextEventId, now, strictQuery, res, linker, server, invitations, rsvps, nextDocId, inviters>>

(* POST /test-user: user = await User.create({...}); sendTokenResponse; the catch block *)
TestUserCreate(p) ==
  LET w == writers[p]
      fields == [name |-> IF w.body.name = Undefined THEN "Test User" ELSE w.body.name, email |-> w.body.email,
                 password |-> Pw("password123"), role |-> IF w.body.role = Undefined THEN "guest" ELSE w.body.role]
      doc == NewUserDoc(fields)
      token == generateToken(doc._id)
  IN /\ w.pc = "create" /\ w.route = "testUser"
     /\ IF ValidationError(fields)
          THEN /\ writers' = [writers EXCEPT ![p] = WriterDone(w, 500, "Error creating test user", NoToken)]
               /\ UNCHANGED <<users, nextId, issued>>
        ELSE IF DuplicateKey(w.body.email)
          THEN /\ writers' = [writers EXCEPT ![p] =
                     [WriterDone(w, 500, "Error creating test user", NoToken) EXCEPT !.refused = TRUE]]
               /\ UNCHANGED <<users, nextId, issued>>
        ELSE /\ nextId <= MaxUsers
             /\ users' = users \cup {doc}
             /\ nextId' = nextId + 1
             /\ issued' = issued \cup {token}
             /\ writers' = [writers EXCEPT ![p] =
                   [WriterDone(w, 200, "Authentication successful", token) EXCEPT !.loaded = doc]]
     /\ UNCHANGED <<events, nextEventId, now, strictQuery, res, linker, server, invitations, rsvps, nextDocId, inviters>>

(* the response of request p has gone out; the next request can be taken *)
RequestOver(p) ==
  /\ linker[p].pc = "done" \/ writers[p].pc = "done"
  /\ linker' = [linker EXCEPT ![p] = LinkerIdle]
  /\ writers' = [writers EXCEPT ![p] = WriterIdle]
  /\ UNCHANGED <<users, nextId, events, nextEventId, issued, now, strictQuery, res, server, invitations, rsvps, nextDocId, inviters>>

WriterSteps ==
  \/ \E p \in Procs, body \in { b \in CreationBodies : /\ validateUserCreation(b) /\ b.password = "pw-one"
                                                         /\ b.role \in {Undefined, "admin"} } :
       RegisterFind(p, body)
  \/ \E p \in Procs : RegisterCreate(p)
  \/ \E p \in Procs, req \in RaceRequests, params \in { q \in UserParams : q.id # BadObjectId },
        body \in { b \in UpdateBodies : /\ validateUserUpdate(b) /\ b.name = Undefined
                                        /\ b.role = Undefined /\ b.email # Undefined } :
       UpdateFind(p, req, params, body)
  \/ \E p \in Procs : UpdateCheckEmail(p)
  \/ \E p \in Procs : UpdateWrite(p)
  \/ \E p \in Procs, body \in TestUserBodies : TestUserFind(p, body)
  \/ \E p \in Procs : TestUserCreate(p)

(* ------------------------- GET /api/auth/status ----------------------- *)
(* req.cookies?.token || (authorization?.startsWith('Bearer') ?            *)
(*   authorization.split(' ')[1] : null) *)
StatusToken(req) ==
  IF Truthy(req.cookie) THEN req.cookie
  ELSE IF req.authorization.scheme = "Bearer" THEN req.authorization.rest
  ELSE NoToken

(* the authenticated flag of the answer: the token is there and jwt.verify *)
(* does not throw; no store is read *)
StatusAuthenticated(req) ==
  LET token == StatusToken(req)
  IN Truthy(token) /\ jwtVerify(token).ok

GetStatus(req) ==
  LET message == IF ~Truthy(StatusToken(req)) THEN "No authentication token found"
                 ELSE IF StatusAuthenticated(req) THEN "User is authenticated"
                 ELSE "Invalid or expired token"
  IN
  /\ res' = [Response("status", req, NoParams, NoBody, NoGate, 200, message, {}, NoToken)
               EXCEPT !.authenticated = StatusAuthenticated(req)]
  /\ UNCHANGED <<users, nextId, events, nextEventId, issued, now, strictQuery, linker, writers, server, invitations, rsvps, nextDocId, inviters>>

(* ------------------- invitations and RSVPs: routers ------------------- *)
(* routes/invitations.js and routes/rsvps.js as they are mounted by         *)
(* server.js: no middleware in front of the handlers, which are             *)
(* placeholders that read and write no collection.                          *)

(* the patterns of the invitations router in registration order *)
InvitationRouter == <<"/test", "/", "/:id", "/my-invitations">>

(* express serves a request with the first registered route that matches *)
(* (path-to-regexp: a literal pattern matches itself, '/:id' matches any    *)
(* one non-empty segment) *)
Dispatch(router, path) ==
  LET Matches(pattern) == IF pattern = "/:id" THEN path # "/" ELSE pattern = path
      hits == { i \in 1..Len(router) : Matches(router[i]) }
  IN router[CHOOSE i \in hits : \A j \in hits : i <= j]

(* GET /api/invitations<path> *)
GetInvitationsRoute(req, path) ==
  LET pattern == Dispatch(InvitationRouter, path)
      message == IF pattern = "/" THEN "GET all invitations - Controller needed"
                 ELSE IF pattern = "/:id" THEN "Get invitation by ID - Controller needed"
                 ELSE IF pattern = "/my-invitations" THEN "Get my invitations - Controller needed"
                 ELSE "Invitations API is working!"
  IN /\ res' = [Response("GET /api/invitations", req, NoParams, NoBody, NoGate, 200,
                         message, {}, NoToken)
                  EXCEPT !.path = path, !.handler = pattern]
     /\ UNCHANGED <<users, nextId, events, nextEventId, issued, now, strictQuery, linker, writers, server, invitations, rsvps, nextDocId, inviters>>

(* GET /api/rsvps : router.get('/', (req, res) => res.json({...})) *)
GetRsvpsRoute(req) ==
  /\ res' = [Response("GET /api/rsvps", req, NoParams, NoBody, NoGate, 200,
                      "GET all RSVPs - Controller needed", {}, NoToken)
               EXCEPT !.path = "/", !.handler = "/"]
  /\ UNCHANGED <<users, nextId, events, nextEventId, issued, now, strictQuery, linker, writers, server, invitations, rsvps, nextDocId, inviters>>

(* ----------------------- invitations controller ----------------------- *)
(* The controllers read req.user._id, which only protect sets: they are     *)
(* modelled as mounted behind protect.                                      *)
RsvpStatuses == {"going", "maybe", "not_going"}

(* new Model(fields): paths outside the schema are dropped (strict) *)
CastTo(paths, fields) == [f \in (DOMAIN fields) \cap paths |-> fields[f]]

FindInvitation(eventId, guestId) ==
  IF \E i \in invitations : i.eventId = eventId /\ i.guestId = guestId
    THEN CHOOSE i \in invitations : i.eventId = eventId /\ i.guestId = guestId
    ELSE Null

InviterIdle == [pc |-> "idle", body |-> [eventId |-> NoId, guestId |-> NoId, message |-> Undefined],
                requester |-> NoId, passedCheck |-> FALSE, status |-> 0, message |-> "",
                created |-> NoId]

InviterDone(w, status, message) == [w EXCEPT !.pc = "done", !.status = status, !.message = message]

(* createInvitation: protect, the required fields, event = await           *)
(* Event.findById(eventId), the organizer check *)
InviteFindEvent(p, req, body) ==
  LET gate == protect(req)
      w == [InviterIdle EXCEPT !.body = body,
                               !.requester = IF gate.next THEN gate.user._id ELSE NoId]
      event == FindById(events, body.eventId)
  IN /\ inviters[p].pc = "idle"
     /\ inviters' = [inviters EXCEPT ![p] =
          IF ~gate.next THEN InviterDone(w, gate.status, gate.message)
          ELSE IF body.eventId = NoId \/ body.guestId = NoId
            THEN InviterDone(w, 400, "Event ID and Guest ID are required")
          ELSE IF event = Null THEN InviterDone(w, 404, "Event not found")
          ELSE IF event.organizerId # gate.user._id
            THEN InviterDone(w, 403, "Not authorized to invite guests to this event")
          ELSE [w EXCEPT !.pc = "findGuest"]]
     /\ UNCHANGED <<users, nextId, events, nextEventId, issued, now, strictQuery, res, linker, writers, server, invitations, rsvps, nextDocId>>

(* createInvitation: guest = await User.findById(guestId), the self check *)
InviteFindGuest(p) ==
  LET w == inviters[p]
  IN /\ w.pc = "findGuest"
     /\ inviters' = [inviters EXCEPT ![p] =
          IF FindById(users, w.body.guestId) = Null THEN InviterDone(w, 404, "Guest not found")
          ELSE IF w.body.guestId = w.requester
            THEN InviterDone(w, 400, "Cannot invite yourself to your own event")
          ELSE [w EXCEPT !.pc = "findExisting"]]
     /\ UNCHANGED <<users, nextId, events, nextEventId, issued, now, strictQuery, res, linker, writers, server, invitations, rsvps, nextDocId>>

(* createInvitation: existingInvitation = await Invitation.findOne({ eventId, guestId }) *)
InviteFindExisting(p) ==
  LET w == inviters[p]
  IN /\ w.pc = "findExisting"
     /\ inviters' = [inviters EXCEPT ![p] =
          IF FindInvitation(w.body.eventId, w.body.guestId) # Null
            THEN InviterDone(w, 400, "Invitation already exists for this guest")
            ELSE [w EXCEPT !.pc = "create", !.passedCheck = TRUE]]
     /\ UNCHANGED <<users, nextId, events, nextEventId, issued, now, strictQuery, res, linker, writers, server, invitations, rsvps, nextDocId>>

(* new Invitation(fields) under invitationSchema *)
NewInvitationDoc(fields) ==
  SetPath(CastTo({"_id", "eventId", "guestId", "message", "status", "sentAt"}, fields), "_id", nextDocId)

DuplicatePair_NoIndex(fields) == FALSE

(* the unique index { eventId: 1, guestId: 1 } seen by an insert *)
DuplicatePair(fields) == FindInvitation(fields.eventId, fields.guestId) # Null

(* createInvitation: await Invitation.create({...}) and the catch block *)
InviteCreate(p) ==
  LET w == inviters[p]
      fields == [eventId |-> w.body.eventId, guestId |-> w.body.guestId, organizerId |-> w.requester,
                 message |-> IF w.body.message = Undefined THEN "You are invited to this event!"
                             ELSE w.body.message,
                 status |-> "pending"]
      doc == NewInvitationDoc(fields)
  IN /\ w.pc = "create"
     /\ IF DuplicatePair(fields)
          THEN /\ inviters' = [inviters EXCEPT ![p] =
                     InviterDone(w, 400, "Invitation already exists for this guest")]
               /\ UNCHANGED <<invitations, nextDocId>>
          ELSE /\ nextDocId <= MaxDocs
               /\ invitations' = invitations \cup {doc}
               /\ nextDocId' = nextDocId + 1
               /\ inviters' = [inviters EXCEPT ![p] =
                     [InviterDone(w, 201, "Invitation created successfully") EXCEPT !.created = doc._id]]
     /\ UNCHANGED <<users, nextId, events, nextEventId, issued, now, strictQuery, res, linker, writers, server, rsvps>>

(* the response of createInvitation p has gone out *)
InviteOver(p) ==
  /\ inviters[p].pc = "done"
  /\ inviters' = [inviters EXCEPT ![p] = InviterIdle]
  /\ UNCHANGED <<users, nextId, events, nextEventId, issued, now, strictQuery, res, linker, writers, server, invitations, rsvps, nextDocId>>

(* the steps of createInvitation request p *)
InviterStepsOf(p) ==
  \/ \E req \in RaceRequests,
        body \in [eventId : {NoId} \cup 1..MaxEvents, guestId : {NoId} \cup 1..MaxUsers,
                  message : {Undefined}] : InviteFindEvent(p, req, body)
  \/ InviteFindGuest(p)
  \/ InviteFindExisting(p)
  \/ InviteCreate(p)

DocParams == [id : {BadObjectId} \cup 1..MaxDocs]

(* PUT /api/invitations/:id (controller): invitation.organizerId.toString() *)
(* throws a TypeError when the document holds no organizerId; the catch     *)
(* block answers 500 for every error that is not a CastError *)
UpdateInvitation(req, params, body) ==
  LET gate == protect(req)
      R(status, message, data) ==
        Response("updateInvitation", req, params, body, gate, status, message, data, NoToken)
      invitation == FindById(invitations, params.id)
      given == (IF body.message # Undefined THEN {"message"} ELSE {})
               \cup (IF body.status # Undefined THEN {"status"} ELSE {})
      updates == [f \in given |-> body[f]]
      updated == ApplyUpdates(invitation, updates)
  IN /\ IF ~gate.next
          THEN res' = GateResponse("updateInvitation", req, params, body, gate)
               /\ invitations' = invitations
        ELSE IF params.id = BadObjectId
          THEN res' = R(400, "Invalid invitation ID format", {}) /\ invitations' = invitations
        ELSE IF invitation = Null
          THEN res' = R(404, "Invitation not found", {}) /\ invitations' = invitations
        ELSE IF ~"organizerId" \in DOMAIN invitation
          THEN res' = R(500, "Server error updating invitation", {}) /\ invitations' = invitations
        ELSE IF invitation.organizerId # gate.user._id
          THEN res' = R(403, "Not authorized to update this invitation", {})
               /\ invitations' = invitations
        ELSE IF "status" \in DOMAIN updates /\ updates.status \notin {"pending", "sent", "accepted", "declined"}
          THEN res' = R(500, "Server error updating invitation", {}) /\ invitations' = invitations
        ELSE /\ invitations' = (invitations \ {invitation}) \cup {updated}
             /\ res' = R(200, "Invitation updated successfully", {updated})
     /\ UNCHANGED <<users, nextId, events, nextEventId, issued, now, strictQuery, linker, writers, server, rsvps, nextDocId, inviters>>

(* DELETE /api/invitations/:id (controller) *)
DeleteInvitation(req, params) ==
  LET gate == protect(req)
      R(status, message) ==
        Response("deleteInvitation", req, params, NoBody, gate, status, message, {}, NoToken)
      invitation == FindById(invitations, params.id)
  IN /\ IF ~gate.next
          THEN res' = GateResponse("deleteInvitation", req, params, NoBody, gate)
               /\ invitations' = invitations
        ELSE IF params.id = BadObjectId
          THEN res' = R(400, "Invalid invitation ID format") /\ invitations' = invitations
        ELSE IF invitation = Null
          THEN res' = R(404, "Invitation not found") /\ invitations' = invitations
        ELSE IF ~"organizerId" \in DOMAIN invitation
          THEN res' = R(500, "Server error deleting invitation") /\ invitations' = invitations
        ELSE IF invitation.organizerId # gate.user._id
          THEN res' = R(403, "Not authorized to delete this invitation")
               /\ invitations' = invitations
        ELSE /\ invitations' = invitations \ {invitation}
             /\ res' = R(200, "Invitation deleted successfully")
     /\ UNCHANGED <<users, nextId, events, nextEventId, issued, now, strictQuery, linker, writers, server, rsvps, nextDocId, inviters>>

(* getMyInvitations (controller): Invitation.find({ guestId: req.user._id }) *)
GetMyInvitations(req) ==
  LET gate == protect(req)
  IN /\ res' = IF ~gate.next THEN GateResponse("getMyInvitations", req, NoParams, NoBody, gate)
               ELSE Response("getMyInvitations", req, NoParams, NoBody, gate, 200, "",
                             { i \in invitations : i.guestId = gate.user._id }, NoToken)
     /\ UNCHANGED <<users, nextId, events, nextEventId, issued, now, strictQuery, linker, writers, server, invitations, rsvps, nextDocId, inviters>>

(* --------------------------- RSVP controller -------------------------- *)
NoCount == 0

FindRsvp(invitationId) ==
  IF \E r \in rsvps : r.invitationId = invitationId
    THEN CHOOSE r \in rsvps : r.invitationId = invitationId
    ELSE Null

(* new RSVP(fields) under rsvpSchema *)
NewRsvpDoc(fields) ==
  SetPath(CastTo({"_id", "invitationId", "status", "notes", "respondedAt"}, fields), "_id", nextDocId)

(* POST /api/rsvps (controller) *)
CreateRSVP(req, body) ==
  LET gate == protect(req)
      R(status, message, data) ==
        Response("createRSVP", req, NoParams, body, gate, status, message, data, NoToken)
      invitation == FindById(invitations, body.invitationId)
      count == IF body.guestsCount = NoCount THEN 1 ELSE body.guestsCount
      doc == NewRsvpDoc([invitationId |-> body.invitationId, userId |-> gate.user._id,
                         eventId |-> invitation.eventId, status |-> body.status,
                         guestsCount |-> count, notes |-> "", respondedAt |-> now])
      keep == UNCHANGED <<rsvps, nextDocId>>
  IN /\ IF ~gate.next
          THEN res' = GateResponse("createRSVP", req, NoParams, body, gate) /\ keep
        ELSE IF body.invitationId = NoId
          THEN res' = R(400, "Invitation ID is required", {}) /\ keep
        ELSE IF body.status \notin RsvpStatuses
          THEN res' = R(400, "Valid RSVP status (going, maybe, not_going) is required", {}) /\ keep
        ELSE IF invitation = Null
          THEN res' = R(404, "Invitation not found", {}) /\ keep
        ELSE IF invitation.guestId # gate.user._id
          THEN res' = R(403, "Not authorized to RSVP for this invitation", {}) /\ keep
        ELSE IF FindRsvp(body.invitationId) # Null
          THEN res' = R(400, "RSVP already submitted for this invitation", {}) /\ keep
        ELSE IF count < 1 \/ count > 20
          THEN res' = R(400, "Number of guests must be between 1 and 20", {}) /\ keep
        ELSE /\ nextDocId <= MaxDocs
             /\ rsvps' = rsvps \cup {doc}
             /\ nextDocId' = nextDocId + 1
             /\ res' = R(201, "RSVP submitted successfully", {doc})
     /\ UNCHANGED <<users, nextId, events, nextEventId, issued, now, strictQuery, linker, writers, server, invitations, inviters>>

(* PUT /api/rsvps/:id (controller): rsvp.userId.toString() throws a        *)
(* TypeError when the document holds no userId *)
UpdateRSVP(req, params, body) ==
  LET gate == protect(req)
      R(status, message, data) ==
        Response("updateRSVP", req, params, body, gate, status, message, data, NoToken)
      rsvp == FindById(rsvps, params.id)
      updates == IF body.status = Undefined THEN [respondedAt |-> now]
                 ELSE [status |-> body.status, respondedAt |-> now]
      updated == ApplyUpdates(rsvp, updates)
  IN /\ IF ~gate.next
          THEN res' = GateResponse("updateRSVP", req, params, body, gate) /\ rsvps' = rsvps
        ELSE IF params.id = BadObjectId
          THEN res' = R(400, "Invalid RSVP ID format", {}) /\ rsvps' = rsvps
        ELSE IF rsvp = Null
          THEN res' = R(404, "RSVP not found", {}) /\ rsvps' = rsvps
        ELSE IF ~"userId" \in DOMAIN rsvp
          THEN res' = R(500, "Server error updating RSVP", {}) /\ rsvps' = rsvps
        ELSE IF rsvp.userId # gate.user._id
          THEN res' = R(403, "Not authorized to update this RSVP", {}) /\ rsvps' = rsvps
        ELSE IF body.status \notin RsvpStatuses \cup {Undefined}
          THEN res' = R(500, "Server error updating RSVP", {}) /\ rsvps' = rsvps
        ELSE /\ rsvps' = (rsvps \ {rsvp}) \cup {updated}
             /\ res' = R(200, "RSVP updated successfully", {updated})
     /\ UNCHANGED <<users, nextId, events, nextEventId, issued, now, strictQuery, linker, writers, server, invitations, nextDocId, inviters>>

(* DELETE /api/rsvps/:id (controller) *)
DeleteRSVP(req, params) ==
  LET gate == protect(req)
      R(status, message) ==
        Response("deleteRSVP", req, params, NoBody, gate, status, message, {}, NoToken)
      rsvp == FindById(rsvps, params.id)
  IN /\ IF ~gate.next
          THEN res' = GateResponse("deleteRSVP", req, params, NoBody, gate) /\ rsvps' = rsvps
        ELSE IF params.id = BadObjectId
          THEN res' = R(400, "Invalid RSVP ID format") /\ rsvps' = rsvps
        ELSE IF rsvp = Null
          THEN res' = R(404, "RSVP not found") /\ rsvps' = rsvps
        ELSE IF ~"userId" \in DOMAIN rsvp
          THEN res' = R(500, "Server error deleting RSVP") /\ rsvps' = rsvps
        ELSE IF rsvp.userId # gate.user._id
          THEN res' = R(403, "Not authorized to delete this RSVP") /\ rsvps' = rsvps
        ELSE /\ rsvps' = rsvps \ {rsvp}
             /\ res' = R(200, "RSVP deleted successfully")
     /\ UNCHANGED <<users, nextId, events, nextEventId, issued, now, strictQuery, linker, writers, server, invitations, nextDocId, inviters>>

(* the requests of the invitations and RSVP controllers *)
InvitationRequests ==
  \/ \E req \in RouteRequests, params \in DocParams,
        body \in [message : {Undefined, "See you there"}, status : {Undefined, "sent", BadRole}] :
       UpdateInvitation(req, params, body)
  \/ \E req \in RouteRequests, params \in DocParams : DeleteInvitation(req, params)
  \/ \E req \in RouteRequests : GetMyInvitations(req)
  \/ \E req \in RouteRequests,
        body \in [invitationId : {NoId} \cup 1..MaxDocs, status : {Undefined, "going", BadRole},
                  guestsCount : {NoCount, 21}] : CreateRSVP(req, body)
  \/ \E req \in RouteRequests, params \in DocParams, body \in [status : {Undefined, "maybe", BadRole}] :
       UpdateRSVP(req, params, body)
  \/ \E req \in RouteRequests, params \in DocParams : DeleteRSVP(req, params)

RouterRequests ==
  \/ \E req \in Requests, path \in {"/", "/test", "/my-invitations", "/1"} : GetInvitationsRoute(req, path)
  \/ \E req \in Requests : GetRsvpsRoute(req)

(* startServer: await connectDB(); a missing MONGODB_URI or a failed       *)
(* mongoose.connect is rethrown and ends in process.exit(1) *)
ConnectDB(reachable) ==
  /\ server.phase = "starting"
  /\ server' = [server EXCEPT !.phase = IF server.mongoUri /\ reachable THEN "connected" ELSE "exited"]
  /\ UNCHANGED <<users, nextId, events, nextEventId, issued, now, strictQuery, res, linker, writers, invitations, rsvps, nextDocId, inviters>>

(* startServer: app.listen(PORT, ...) *)
Listen ==
  /\ server.phase = "connected"
  /\ server' = [server EXCEPT !.phase = "listening"]
  /\ UNCHANGED <<users, nextId, events, nextEventId, issued, now, strictQuery, res, linker, writers, invitations, rsvps, nextDocId, inviters>>

(* ------------------------------ Init / Next --------------------------- *)
SeedAdmin == [_id |-> 1, name |-> "John", email |-> "root@x.com",
              password |-> Hash(Pw("pw-one")), role |-> "admin"]
SeedOrganizer == [_id |-> 2, name |-> "John", email |-> "org@x.com",
                  password |-> Hash(Pw("pw-two")), role |-> "organizer"]
SeedEvent == [_id |-> 1, organizerId |-> 2, status |-> "active", date |-> FutureDate]

(* the database holds documents written before start: an administrator, an
   organizer and an event of that organizer *)
Init ==
  /\ users = {SeedAdmin, SeedOrganizer} /\ nextId = 3
  /\ events = {SeedEvent} /\ nextEventId = 2
  /\ issued = {}
  /\ now = 0
  /\ strictQuery \in BOOLEAN
  /\ res = Idle
  /\ linker = [p \in Procs |-> LinkerIdle]
  /\ writers = [p \in Procs |-> WriterIdle]
  /\ invitations = {} /\ rsvps = {} /\ nextDocId = 1
  /\ inviters = [p \in Procs |-> InviterIdle]
  /\ server = [phase |-> "listening", production |-> FALSE, jwtSecret |-> TRUE, mongoUri |-> TRUE]

(* the process has just been started, in any environment *)
InitStartup ==
  /\ users = {SeedAdmin, SeedOrganizer} /\ nextId = 3
  /\ events = {SeedEvent} /\ nextEventId = 2
  /\ issued = {}
  /\ now = 0
  /\ strictQuery \in BOOLEAN
  /\ res = Idle
  /\ linker = [p \in Procs |-> LinkerIdle]
  /\ writers = [p \in Procs |-> WriterIdle]
  /\ invitations = {} /\ rsvps = {} /\ nextDocId = 1
  /\ inviters = [p \in Procs |-> InviterIdle]
  /\ server \in [phase : {"starting"}, production : BOOLEAN, jwtSecret : BOOLEAN, mongoUri : BOOLEAN]

(* the requests of one handler are served one after the other *)
GateRequests ==
  \/ \E req \in Requests : GateProtect(req)
  \/ \E req \in Requests : GateOptional(req)

UserRequests ==
  \/ \E req \in PublicRequests, body \in CreationBodies : Register(req, body)
  \/ \E req \in PublicRequests, body \in LoginBodies : Login(req, body)
  \/ \E req \in RouteRequests : GetUsers(req)
  \/ \E req \in RouteRequests, params \in UserParams : GetUser(req, params)
  \/ \E req \in RouteRequests, params \in UserParams, body \in UpdateBodies : UpdateUser(req, params, body)
  \/ \E req \in RouteRequests, params \in UserParams : DeleteUser(req, params)

EventRequests ==
  \/ \E req \in RouteRequests, body \in EventCreationBodies : CreateEvent(req, body)
  \/ \E req \in RouteRequests, params \in EventParams, body \in EventUpdateBodies : UpdateEvent(req, params, body)
  \/ \E req \in RouteRequests, params \in EventParams : DeleteEvent(req, params)

OAuthRequests ==
  \/ \E req \in PublicRequests, body \in GoogleBodies : GoogleLogin(req, body)
  \/ \E req \in PublicRequests, body \in CallbackBodies : GoogleCallback(req, body)
  \/ \E req \in PublicRequests, body \in CallbackBodies : GoogleCallbackBasic(req, body)

Next ==
  \/ res = Idle /\ Tick
  \/ EndRequest
  \/ res = Idle /\ GateRequests
  \/ res = Idle /\ UserRequests
  \/ res = Idle /\ EventRequests
  \/ res = Idle /\ OAuthRequests
  \/ res = Idle /\ LinkerSteps
  \/ res = Idle /\ WriterSteps
  \/ \E p \in Procs : RequestOver(p)
  \/ res = Idle /\ RouterRequests
  \/ res = Idle /\ \E p \in Procs : InviterStepsOf(p)
  \/ \E p \in Procs : InviteOver(p)
  \/ res = Idle /\ InvitationRequests

Spec == Init /\ [][Next]_vars

(* the gate, with the requests that hand out and revoke tokens *)
SpecGate ==
  Init /\ [][
        \/ res = Idle /\ Tick
        \/ EndRequest
        \/ res = Idle /\ GateRequests
        \/ res = Idle /\ \E req \in PublicRequests, body \in LoginBodies : Login(req, body)
        \/ res = Idle /\ \E req \in RouteRequests, params \in UserParams : DeleteUser(req, params) ]_vars

(* the users routes *)
SpecUsers ==
  Init /\ [][
        \/ EndRequest
        \/ res = Idle /\ UserRequests ]_vars

(* the routes that mutate an owned resource *)
SpecOwnership ==
  Init /\ [][
        \/ EndRequest
        \/ res = Idle /\ \E req \in PublicRequests, body \in LoginBodies : Login(req, body)
        \/ res = Idle /\ \E req \in RouteRequests, params \in UserParams, body \in UpdateBodies : UpdateUser(req, params, body)
        \/ res = Idle /\ EventRequests ]_vars

(* accounts and their updates *)
SpecRoles ==
  Init /\ [][
        \/ EndRequest
        \/ res = Idle /\ \E req \in PublicRequests, body \in CreationBodies : Register(req, body)
        \/ res = Idle /\ \E req \in PublicRequests, body \in LoginBodies : Login(req, body)
        \/ res = Idle /\ \E req \in RouteRequests, params \in UserParams, body \in UpdateBodies : UpdateUser(req, params, body) ]_vars

(* password accounts and the OAuth linker *)
SpecOAuth ==
  Init /\ [][
        \/ res = Idle /\ Tick
        \/ EndRequest
        \/ res = Idle /\ \E req \in PublicRequests, body \in CreationBodies : Register(req, body)
        \/ res = Idle /\ \E req \in PublicRequests, body \in LoginBodies : Login(req, body)
        \/ res = Idle /\ OAuthRequests ]_vars

(* resolutions of OAuth profiles running concurrently *)
SpecLinker ==
  Init /\ [][
        \/ LinkerSteps
        \/ \E p \in Procs : RequestOver(p) ]_vars

(* every writer of the user collection, interleaved *)
SpecEmails ==
  Init /\ [][
        \/ LinkerSteps
        \/ WriterSteps
        \/ \E p \in Procs : RequestOver(p) ]_vars

(* a client registers and logs in with the next request *)
SpecRoundTrip ==
  Init /\ [][
        \/ EndRequest
        \/ res = Idle /\ \E req \in PublicRequests, body \in CreationBodies : Register(req, body)
        \/ res = Idle /\ \E req \in PublicRequests, body \in LoginBodies : Login(req, body)
        \/ res.route = "registerUser" /\ \E req \in PublicRequests, body \in LoginBodies : Login(req, body) ]_vars

(* every issuer of tokens, and the gate *)
SpecTokens ==
  Init /\ [][
        \/ res = Idle /\ Tick
        \/ EndRequest
        \/ res = Idle /\ \E req \in PublicRequests, body \in CreationBodies : Register(req, body)
        \/ res = Idle /\ \E req \in PublicRequests, body \in LoginBodies : Login(req, body)
        \/ res = Idle /\ OAuthRequests
        \/ res = Idle /\ \E req \in Requests : GateProtect(req) ]_vars

(* OAuth sign-up and password login *)
SpecPasswords ==
  Init /\ [][
        \/ res = Idle /\ Tick
        \/ EndRequest
        \/ res = Idle /\ OAuthRequests
        \/ res = Idle /\ \E req \in PublicRequests, body \in LoginBodies \cup [email : Emails, password : { PlaceholderPlain(t) : t \in 0..MaxTime }] :
                           Login(req, body) ]_vars

(* startup, then the requests a listening server takes *)
SpecStartup ==
  InitStartup /\ [][
        \/ \E reachable \in BOOLEAN : ConnectDB(reachable)
        \/ Listen
        \/ server.phase = "listening" /\ res = Idle /\ Tick
        \/ server.phase = "listening" /\ EndRequest
        \/ server.phase = "listening" /\ res = Idle /\ GateRequests
        \/ server.phase = "listening" /\ res = Idle
             /\ \E req \in PublicRequests, body \in LoginBodies : Login(req, body) ]_vars

(* creating and deleting events *)
SpecEvents ==
  Init /\ [][
        \/ EndRequest
        \/ res = Idle /\ \E req \in PublicRequests, body \in LoginBodies : Login(req, body)
        \/ res = Idle /\ \E req \in RouteRequests, body \in EventCreationBodies : CreateEvent(req, body)
        \/ res = Idle /\ \E req \in RouteRequests, params \in EventParams : DeleteEvent(req, params) ]_vars

(* organizers log in and update their events *)
SpecEventUpdates ==
  Init /\ [][
        \/ EndRequest
        \/ res = Idle /\ \E req \in PublicRequests, body \in LoginBodies : Login(req, body)
        \/ res = Idle /\ \E req \in RouteRequests, params \in EventParams, body \in EventUpdateBodies :
                           UpdateEvent(req, params, body) ]_vars

(* clients log in, identities are deleted, time passes, and the status    *)
(* route is asked about any request *)
SpecStatus ==
  Init /\ [][
        \/ res = Idle /\ Tick
        \/ EndRequest
        \/ res = Idle /\ \E req \in PublicRequests, body \in LoginBodies : Login(req, body)
        \/ res = Idle /\ \E req \in RouteRequests, params \in UserParams : DeleteUser(req, params)
        \/ res = Idle /\ \E req \in Requests : GetStatus(req) ]_vars

(* the protected mutations of events and users, asked for with any        *)
(* Authorization header, valid or not, and with bodies that pass or fail   *)
(* validation *)
SpecOrder ==
  Init /\ [][
        \/ res = Idle /\ Tick
        \/ EndRequest
        \/ res = Idle /\ \E req \in PublicRequests, body \in LoginBodies : Login(req, body)
        \/ res = Idle /\ \E req \in { r \in Requests : r.cookie = NoToken } :
             \/ \E body \in EventCreationBodies : CreateEvent(req, body)
             \/ \E params \in EventParams,
                   body \in { b \in EventUpdateBodies : /\ b.organizerId = NoId
                                                        /\ b.date \in {Undefined, BadDate}
                                                        /\ b.status \in {Undefined, "active", "cancelled"} } :
                  UpdateEvent(req, params, body)
             \/ \E params \in EventParams : DeleteEvent(req, params)
             \/ \E params \in UserParams,
                   body \in { b \in UpdateBodies : /\ b.name = Undefined /\ b.role = Undefined
                                                   /\ b.email \in {Undefined, BadEmail, "a@x.com"} } :
                  UpdateUser(req, params, body)
             \/ \E params \in UserParams : DeleteUser(req, params) ]_vars

(* every endpoint that hands out a token for an identity *)
SpecIssuance ==
  Init /\ [][
        \/ EndRequest
        \/ res = Idle /\ \E req \in PublicRequests, body \in LoginBodies : Login(req, body)
        \/ res = Idle /\ \E req \in PublicRequests, body \in GoogleBodies : GoogleLogin(req, body)
        \/ res = Idle /\ \E p \in Procs, body \in TestUserBodies : TestUserFind(p, body)
        \/ res = Idle /\ \E p \in Procs : TestUserCreate(p)
        \/ \E p \in Procs : RequestOver(p) ]_vars

(* the routers of the invitation and RSVP collections as mounted *)
SpecRouter ==
  Init /\ [][
        \/ EndRequest
        \/ res = Idle /\ \E req \in PublicRequests, body \in LoginBodies : Login(req, body)
        \/ res = Idle /\ RouterRequests ]_vars

(* concurrent createInvitation requests, one await at a time *)
SpecInviters ==
  Init /\ [][
        \/ EndRequest
        \/ res = Idle /\ \E req \in PublicRequests, body \in LoginBodies : Login(req, body)
        \/ res = Idle /\ \E p \in Procs : InviterStepsOf(p)
        \/ \E p \in Procs : InviteOver(p) ]_vars

(* the invitation and RSVP controllers, one request after the other *)
SpecInvitations ==
  Init /\ [][
        \/ EndRequest
        \/ res = Idle /\ \E req \in PublicRequests, body \in LoginBodies : Login(req, body)
        \/ res = Idle /\ InviterStepsOf(1)
        \/ res = Idle /\ InviteOver(1)
        \/ res = Idle /\ inviters[1].pc = "idle" /\ InvitationRequests
 ]_vars

(* ======================================================================= *)
(*                               Properties                                *)
(* ======================================================================= *)

(* the routes whose first middleware is protect *)
GatedRoutes == {"protect", "getUsers", "getUser", "updateUser", "deleteUser",
                "updateEvent", "deleteEvent"}

(* a validly signed token that has not expired *)
Verifies(t) == t.kind = "jwt" /\ t.sig = "ok" /\ now < t.exp
(* a validly signed token whose expiry has passed *)
IsExpired(t) == t.kind = "jwt" /\ t.sig = "ok" /\ now >= t.exp

CarriesNoToken(req) == req.authorization.scheme # "Bearer" /\ req.cookie = NoToken

C2_VerifyFailureIs401 ==
  (res.route \in GatedRoutes /\ Truthy(ExtractToken(res.req)) /\ ~Verifies(ExtractToken(res.req))) =>
     /\ res.status = 401
     /\ ~res.gate.next
     /\ res.gate.user = Null
     /\ (res.message = "Token has expired.") <=> IsExpired(ExtractToken(res.req))
     /\ ~IsExpired(ExtractToken(res.req)) => res.message = "Invalid token."

C2_Witness ==
  /\ res.route = "protect"
  /\ ExtractToken(res.req) \in issued
  /\ IsExpired(ExtractToken(res.req))
  /\ ExtractToken(res.req).sub \in Ids(users)
  /\ res.message = "Token has expired."

(* C3 as stated: once an identity has been deleted, every protect call     *)
(* that presents an unexpired token issued for it ends in 401 'user not    *)
(* found', never in 500 and with no identity attached. *)
C3_EveryCallIs401 ==
  [][ (/\ res = Idle
       /\ res'.route \in GatedRoutes
       /\ ExtractToken(res'.req) \in issued
       /\ Verifies(ExtractToken(res'.req))
       /\ ExtractToken(res'.req).sub \notin Ids(users))
      => (/\ res'.status = 401
          /\ res'.message = "Token is not valid. User not found."
          /\ res'.gate.user = Null
          /\ ~res'.gate.next) ]_vars

(* C3 (amended): once an identity has been deleted, a protect call that    *)
(* presents an unexpired token issued for it attaches no identity, does    *)
(* not call next and changes nothing; it is answered 401 'user not found'  *)
(* when the store lookup completes and 500 only when the lookup fails. *)
C3_DeletionRevokes ==
  [][ (/\ res = Idle
       /\ res'.route \in GatedRoutes
       /\ ExtractToken(res'.req) \in issued
       /\ Verifies(ExtractToken(res'.req))
       /\ ExtractToken(res'.req).sub \notin Ids(users))
      => (/\ res'.gate.user = Null
          /\ ~res'.gate.next
          /\ users' = users
          /\ res'.req.db = "up" =>
               (res'.status = 401 /\ res'.message = "Token is not valid. User not found.")
          /\ res'.req.db = "down" => res'.status = 500) ]_vars

C3_Witness ==
  /\ res.route = "protect"
  /\ ExtractToken(res.req) \in issued
  /\ Verifies(ExtractToken(res.req))
  /\ ExtractToken(res.req).sub \notin Ids(users)
  /\ Cardinality({ t \in issued : t.sub = ExtractToken(res.req).sub }) >= 2
  /\ res.status = 401

(* C4: no user object in any response, and no identity attached to a       *)
(* request, contains the password field. *)
C4_NoPasswordReturned ==
  /\ \A d \in res.data : "password" \notin DOMAIN d
  /\ "password" \notin DOMAIN res.gate.user

(* C5: optionalAuth always calls next and never sends a response; an       *)
(* identity is attached only when the token verifies and its subject       *)
(* exists, and it is that subject. *)
C5_OptionalNeverBlocks ==
  (res.route = "optionalAuth") =>
     /\ res.gate.next
     /\ res.status = 0
     /\ res.gate.user # Null =>
          /\ Verifies(ExtractToken(res.req))
          /\ ExtractToken(res.req).sub \in Ids(users)
          /\ res.gate.user._id = ExtractToken(res.req).sub

C5_Witness ==
  /\ res.route = "optionalAuth"
  /\ Truthy(ExtractToken(res.req))
  /\ ~Verifies(ExtractToken(res.req))
  /\ res.gate.next
  /\ res.gate.user = Null

C7_InfrastructureIs500 ==
  (res.route \in GatedRoutes) =>
     /\ (Verifies(ExtractToken(res.req)) /\ res.req.db = "down") =>
          (res.gate.status = 500 /\ ~res.gate.next /\ res.gate.user = Null)
     /\ (res.gate.status = 500) =>
          (Verifies(ExtractToken(res.req)) /\ res.req.db = "down")

C7_Witness ==
  /\ res.route = "protect"
  /\ ExtractToken(res.req) \in issued
  /\ Verifies(ExtractToken(res.req))
  /\ ExtractToken(res.req).sub \in Ids(users)
  /\ res.req.db = "down"
  /\ res.status = 500

(* C8: updateEvent, deleteEvent and updateUser let the requester through   *)
(* when it owns the resource or has role admin, and otherwise answer 403   *)
(* and change nothing. *)
OwnerOf(route, id) ==
  IF route = "updateUser" THEN id ELSE FindById(events, id).organizerId

ReachesOwnershipCheck(r) ==
  /\ r.route \in {"updateUser", "updateEvent", "deleteEvent"}
  /\ r.gate.next
  /\ r.route = "updateUser" => (validateUserUpdate(r.body) /\ r.params.id \in Ids(users))
  /\ r.route = "updateEvent" => (validateEventUpdate(r.body) /\ r.params.id \in Ids(events))
  /\ r.route = "deleteEvent" => r.params.id \in Ids(events)

C8_OwnerOrAdminMayMutate ==
  [][ (res = Idle /\ ReachesOwnershipCheck(res')) =>
        IF \/ res'.gate.user._id = OwnerOf(res'.route, res'.params.id)
           \/ res'.gate.user.role = "admin"
          THEN res'.status # 403
          ELSE res'.status = 403 /\ users' = users /\ events' = events ]_vars

(* C9: the role of an identity changes only in an updateUser call whose    *)
(* requester has role admin. *)
C9_RoleChangeAdminOnly ==
  [][ \A u \in users : \A v \in users' :
        (u._id = v._id /\ u.role # v.role) =>
           (res'.route = "updateUser" /\ res'.gate.user.role = "admin") ]_vars

C9_Witness ==
  /\ res.route = "updateUser"
  /\ res.status = 200
  /\ res.gate.user.role # "admin"
  /\ res.params.id = res.gate.user._id
  /\ res.body.role \in RoleEnum
  /\ res.body.role # res.gate.user.role
  /\ FindById(users, res.params.id).role = res.gate.user.role

(* C10: resolving an OAuth profile whose email is that of a password       *)
(* account and whose externalId is new leaves exactly one identity with    *)
(* that email: same id, same credential hash, now carrying the externalId. *)
KnownGoogleId(g) == \E u \in users : "googleId" \in DOMAIN u /\ u.googleId = g

C10_LinkDoesNotDuplicate ==
  [][ (/\ res = Idle
       /\ res'.route \in {"googleLogin", "googleCallback"}
       /\ res'.status = 200
       /\ FindByEmail(res'.body.idToken.email) # Null
       /\ ~KnownGoogleId(res'.body.idToken.sub))
      => LET p == res'.body.idToken
             before == FindByEmail(p.email)
         IN /\ Cardinality({ v \in users' : v.email = p.email }) = 1
            /\ \E v \in users' :
                 /\ v._id = before._id
                 /\ v.email = p.email
                 /\ v.password = before.password
                 /\ "googleId" \in DOMAIN v
                 /\ v.googleId = p.sub ]_vars

(* C11: two resolutions of the same new profile, in any interleaving of    *)
(* their find-by-externalId, find-by-email and create steps, create        *)
(* exactly one identity and both finish successfully with that identity. *)
C11_ConcurrentLinkCreatesOne ==
  (/\ linker[1].pc = "done" /\ linker[2].pc = "done"
   /\ linker[1].fresh /\ linker[2].fresh
   /\ linker[1].profile = linker[2].profile)
  => /\ Cardinality({ u \in users : u.email = linker[1].profile.email }) = 1
     /\ linker[1].status = 200 /\ linker[2].status = 200
     /\ linker[1].user._id = linker[2].user._id
     /\ linker[1].user.email = linker[1].profile.email

(* no two stored identities have the same email *)
EmailUnique(coll) == \A u \in coll : \A v \in coll : u.email = v.email => u = v

(* C12: no two identities ever have the same email, and every operation    *)
(* that would create a second identity with an existing email fails with   *)
(* 400 and leaves the store unchanged. *)
C12_DuplicateEmailIs400 ==
  [][ /\ EmailUnique(users')
      /\ \A p \in Procs :
           /\ (writers'[p].refused /\ ~writers[p].refused) =>
                (users' = users /\ writers'[p].status = 400)
           /\ (linker'[p].failure # "" /\ linker[p].failure = "") => users' = users
           /\ (linker'[p].pc = "done" /\ linker'[p].failure # "") => linker'[p].status = 400 ]_vars

(* C13: registerUser answers 201 with a valid token and no credential      *)
(* hash; the loginUser that follows it with the same email answers 200     *)
(* with a valid token when the password is the registered one and 401      *)
(* 'Invalid email or password' when it is any other. *)
C13_RegisterLoginRoundTrip ==
  [][ /\ (res'.route = "registerUser" /\ res'.status = 201) =>
           /\ Verifies(res'.token)
           /\ \A d \in res'.data : "password" \notin DOMAIN d
      /\ (/\ res.route = "registerUser" /\ res.status = 201
          /\ res'.route = "loginUser" /\ res'.req.db = "up"
          /\ res'.body.email = res.body.email) =>
           IF res'.body.password = res.body.password
             THEN res'.status = 200 /\ Verifies(res'.token)
             ELSE res'.status = 401 /\ res'.message = "Invalid email or password" ]_vars

(* C14 as stated: a token issued for identity U, presented to protect      *)
(* before its expiry while U exists, always makes protect call next with   *)
(* exactly U attached. *)
C14_IssuedTokenAlwaysPasses ==
  [][ (/\ res = Idle
       /\ res'.route \in GatedRoutes
       /\ ExtractToken(res'.req) \in issued
       /\ Verifies(ExtractToken(res'.req))
       /\ ExtractToken(res'.req).sub \in Ids(users))
      => (/\ res'.gate.next
          /\ res'.gate.user = AttachedUser(FindById(users, ExtractToken(res'.req).sub))) ]_vars

(* C14 (amended): a token issued for identity U, presented to protect      *)
(* before its expiry while U exists, makes protect call next with exactly  *)
(* U attached whenever the store lookup completes; when the lookup fails   *)
(* protect answers 500, calls no next and attaches no identity.  In no     *)
(* case is another identity attached. *)
C14_TokenRoundTrip ==
  [][ (/\ res = Idle
       /\ res'.route \in GatedRoutes
       /\ ExtractToken(res'.req) \in issued
       /\ Verifies(ExtractToken(res'.req))
       /\ ExtractToken(res'.req).sub \in Ids(users))
      => LET U == FindById(users, ExtractToken(res'.req).sub)
         IN /\ res'.req.db = "up" =>
                 (res'.gate.next /\ res'.gate.user = AttachedUser(U) /\ res'.gate.user._id = U._id)
            /\ res'.req.db = "down" =>
                 (res'.gate.status = 500 /\ ~res'.gate.next /\ res'.gate.user = Null) ]_vars

C14_Witness ==
  /\ res.route = "protect"
  /\ ExtractToken(res.req) \in issued
  /\ Verifies(ExtractToken(res.req))
  /\ ExtractToken(res.req).sub \notin {1, 2}
  /\ now > 0
  /\ res.gate.next
  /\ res.gate.user._id = ExtractToken(res.req).sub
  /\ res.gate.user.email \in Emails

(* the routes of the OAuth linker *)
LinkerResponses == {"googleLogin", "googleCallback", "googleCallbackBasic"}

(* C15: every identity created by the OAuth linker, by either callback     *)
(* strategy or by POST /google/login, is stored with role guest, for every *)
(* profile and whatever the request carries. *)
C15_OAuthSignUpIsGuest ==
  [][ (res'.route \in LinkerResponses) =>
        \A v \in users' : v._id \notin Ids(users) => v.role = "guest" ]_vars

C15_Witness ==
  /\ res.route = "googleLogin"
  /\ res.status = 200
  /\ res.body.role = "admin"
  /\ \E d \in res.data :
       /\ d._id = nextId - 1
       /\ d._id \notin {1, 2}
       /\ FindById(users, d._id).password.s = "google-auth"
       /\ FindById(users, d._id).role = "guest"

(* C16: after each successful loginUser and each successful OAuth          *)
(* resolution for identity U, the stored lastLogin of U is the time of     *)
(* that authentication. *)
C16_LastLoginUpdated ==
  (res.route \in {"loginUser"} \cup LinkerResponses /\ res.status = 200) =>
     \A d \in res.data :
        LET U == FindById(users, d._id)
        IN "lastLogin" \in DOMAIN U /\ U.lastLogin = now

(* C17: no loginUser call succeeds for an identity created by OAuth        *)
(* sign-up, for any plaintext a client can derive, the placeholder pattern *)
(* built from the creation time included. *)
C17_OAuthOnlyHasNoPasswordLogin ==
  (res.route = "loginUser" /\ res.status = 200) =>
     \A d \in res.data : FindById(users, d._id).password.s # "google-auth"

(* C18: with NODE_ENV production and JWT_SECRET absent the server never    *)
(* reaches the listening state and never issues or verifies a token. *)
C18_MissingSecretIsFatal ==
  (server.production /\ ~server.jwtSecret) =>
     /\ server.phase # "listening"
     /\ issued = {}
     /\ res.token = NoToken
     /\ res.gate.user = Null

(* the texts of the underlying store and provider errors *)
RawErrors == {RawStoreError, RawProviderError, RawValidationError, DuplicateKeyMessage}

(* C19: whenever the OAuth linker fails, the client receives the failure   *)
(* redirect or a 401 whose body holds no text of the underlying store or   *)
(* provider error. *)
C19_LinkerFailureIsGeneric ==
  (res.route \in LinkerResponses /\ res.status \notin {200, 400}) =>
     /\ res.status = 401
     /\ res.message \notin RawErrors
     /\ res.error \notin RawErrors

(* C20: createEvent, for an authenticated requester and a body that passes *)
(* validateEventCreation with a date that is not in the past (here with    *)
(* every field of the schema given), answers 201 and stores the event with *)
(* the requester as organizerId. *)
C20_CreateEventStores ==
  (/\ res.route = "createEvent"
   /\ res.gate.next
   /\ validateEventCreation(res.body)
   /\ res.body.time # Undefined
   /\ res.body.date = FutureDate)
  => /\ res.status = 201
     /\ \E e \in res.data : e \in events /\ e.organizerId = res.gate.user._id

(* -------------------- invitations and RSVPs --------------------------- *)
(* C21: a request to GET /api/invitations or GET /api/rsvps that carries   *)
(* no token is answered 401 and reaches no collection handler.             *)
C21_CollectionsRequireToken ==
  (/\ res.route \in {"GET /api/invitations", "GET /api/rsvps"}
   /\ res.path = "/"
   /\ CarriesNoToken(res.req))
  => res.status = 401 /\ res.handler = ""

(* the organizer of the event an invitation names *)
OrganizerOf(invitation) == FindById(events, invitation.eventId).organizerId

(* C22: createInvitation creates an invitation only for the organizer of   *)
(* the event named by eventId and answers 403 to every other authenticated *)
(* requester; updateInvitation and deleteInvitation, for an invitation     *)
(* that exists, succeed for that organizer and answer 403 to everyone else. *)
C22_OrganizerOnlyInvitation ==
  /\ \A p \in Procs :
        (inviters[p].pc = "done" /\ inviters[p].requester # NoId
           /\ FindById(events, inviters[p].body.eventId) # Null
           /\ inviters[p].body.guestId # NoId) =>
          IF FindById(events, inviters[p].body.eventId).organizerId = inviters[p].requester
            THEN inviters[p].status # 403
            ELSE inviters[p].status = 403 /\ inviters[p].created = NoId
  /\ (/\ res.route \in {"updateInvitation", "deleteInvitation"}
      /\ res.gate.next
      /\ res.status \notin {400, 404}) =>
        /\ res.status \in {200, 403}
        /\ \A i \in invitations : i._id = res.params.id =>
              (res.status = 200 <=> OrganizerOf(i) = res.gate.user._id)

(* createInvitation request p came from the organizer of an existing event *)
(* for an existing guest other than the organizer, and created nothing *)
RefusedInvite(p) ==
  LET w == inviters[p]
      event == FindById(events, w.body.eventId)
  IN /\ w.pc = "done" /\ w.created = NoId
     /\ w.requester # NoId
     /\ event # Null /\ event.organizerId = w.requester
     /\ FindById(users, w.body.guestId) # Null /\ w.body.guestId # w.requester

C24_GuestOnlyRsvp ==
  /\ (/\ res.route = "createRSVP" /\ res.gate.next
      /\ res.body.status \in RsvpStatuses
      /\ FindById(invitations, res.body.invitationId) # Null) =>
        IF FindById(invitations, res.body.invitationId).guestId = res.gate.user._id
          THEN res.status # 403
          ELSE res.status = 403 /\ res.data = {}
  /\ (/\ res.route \in {"updateRSVP", "deleteRSVP"}
      /\ res.gate.next
      /\ res.status \notin {400, 404}) =>
        res.status \in {200, 403}

(* C25: GET /api/invitations/my-invitations with a valid token of user G is *)
(* served by the my-invitations handler, never by the '/:id' route, and    *)
(* returns exactly the invitations whose guestId is G.                     *)
C25_MyInvitationsRoute ==
  (/\ res.route = "GET /api/invitations"
   /\ res.path = "/my-invitations"
   /\ protect(res.req).next)
  => /\ res.handler = "/my-invitations"
     /\ res.data = { i \in invitations : i.guestId = protect(res.req).user._id }

(* the request body proves the identity by its password *)
PasswordProof(body, identity) ==
  /\ "password" \in DOMAIN body
  /\ body.email = identity.email
  /\ BcryptCompare(body.password, identity.password)

(* C26: a token for an identity that already exists is handed out only to  *)
(* a request that proved the identity: a password that matches in          *)
(* loginUser or an OAuth profile resolved to it; never to a request that   *)
(* supplies only the email.                                                *)
C26_TokenOnlyAfterProof ==
  [][ /\ (res' # res /\ res'.token # NoToken /\ FindById(users, res'.token.sub) # Null) =>
           \/ res'.route \in LinkerResponses /\ res'.body.idToken.kind = "valid"
           \/ PasswordProof(res'.body, FindById(users, res'.token.sub))
      /\ \A p \in Procs :
           (writers'[p] # writers[p] /\ writers'[p].token # NoToken
              /\ FindById(users, writers'[p].token.sub) # Null) =>
             PasswordProof(writers'[p].body, FindById(users, writers'[p].token.sub)) ]_vars

(* C27: no updateEvent call, whatever its body, changes the organizerId of *)
(* a stored event.                                                         *)
C27_UpdateKeepsOrganizer ==
  [][ \A e \in events, f \in events' : f._id = e._id => f.organizerId = e.organizerId ]_vars

(* C28: an identity is removed by deleteUser only when the requester is    *)
(* that identity or has role admin, the rule updateUser applies.           *)
C28_DeleteOwnerOrAdmin ==
  [][ \A u \in users : u._id \notin Ids(users') =>
        /\ res'.route = "deleteUser"
        /\ canMutateUser(res'.gate.user, u._id) ]_vars

(* C29: GET /api/auth/status reports authenticated = true exactly when     *)
(* protect would accept the same request in the same store state (here    *)
(* with the store reachable and no empty bearer token).                    *)
C29_StatusAgreesWithProtect ==
  (res.route = "status" /\ res.req.db = "up" /\ res.req.authorization.rest # EmptyString) =>
     (res.authenticated <=> protect(res.req).next)

ProtectedMutations == {"createEvent", "updateEvent", "deleteEvent", "updateUser", "deleteUser"}

(* the request carries no token, a token that does not verify, or a token  *)
(* whose subject is not a stored identity *)
Unauthenticated(req) ==
  LET token == ExtractToken(req)
  IN \/ ~Truthy(token)
     \/ ~jwtVerify(token).ok
     \/ jwtVerify(token).id \notin Ids(users)

====
